---- MODULE Spec2Model ----
(***************************************************************************)
(* Hybrid cache and optimistic synchronisation of MoonTV's client database *)
(* (lib/db.client.ts, here src/unnamed/part_009) against the remote store  *)
(* behind /api/favorites, /api/playrecords and /api/searchhistory.         *)
(*                                                                         *)
(* The browser runs one thread: every action below is one synchronous      *)
(* segment of a handler, from its start (or from the resolution of the     *)
(* promise it awaited) up to its next await or its return.  A remote       *)
(* request in flight is the position of the call that awaits it; the       *)
(* server handles a request in the step that delivers its response; the    *)
(* specifications with ServerAdvance also let the commands of an add run   *)
(* one by one before it.                                                   *)
(* localStorage.setItem is taken to succeed.                               *)
(***************************************************************************)
EXTENDS Integers, Sequences, FiniteSets, TLC

VARIABLES
    cookie,        \* username of the auth cookie, NoUser when there is none
    now,           \* Date.now(), in ms
    localStorage,  \* per username: the record stored under CACHE_PREFIX + username
    remote,        \* the server's store: per username and domain
    calls,         \* the calls in flight, oldest first
    last,          \* the latest step of the program and its effects, in order
    scope,         \* the users, domains and inputs this run exercises
    device,        \* local-only mode: the items under PLAY_RECORDS_KEY,
                   \* FAVORITES_KEY and SEARCH_HISTORY_KEY
    listeners      \* the handlers registered on window: [id, eventType]

vars == <<cookie, now, localStorage, remote, calls, last, scope, device, listeners>>

----------------------------------------------------------------------------
(* Bounds of the exploration *)

MaxInFlight == 2
MaxTicks == 2
\* how many keywords the caller of the cap law adds
MaxAdds == 25

(* Program constants *)

CACHE_VERSION == "1.0.0"
CACHE_EXPIRE_TIME == 60 * 60 * 1000
SEARCH_HISTORY_LIMIT == 20

(* Universes of the inputs *)

NoUser == ""
Users == {"alice", "bob"}
KeyedDomains == {"playRecords", "favorites"}
Domains == KeyedDomains \cup {"searchHistory"}
Records == {"r1", "r2"}

\* A string the program takes apart or puts together is the sequence of its
\* characters, "" the empty sequence.
Sources == {<< >>, <<"s">>, <<"t">>}
Ids == {<< >>, <<"1">>, <<"2">>}
Keywords == {<<"x">>, <<"y">>}

\* `${source}+${id}`
generateStorageKey(source, id) == source \o <<"+">> \o id

Key1 == generateStorageKey(<<"s">>, <<"1">>)
Key2 == generateStorageKey(<<"t">>, <<"2">>)
Keys == {Key1, Key2}
\* the <<source, id>> arguments of the keys above
KeyArgs == {<< <<"s">>, <<"1">> >>, << <<"t">>, <<"2">> >>}

\* the keywords of long histories are single letters
Letter == <<"a", "b", "c", "d", "e", "f", "g", "h", "i", "j", "k", "l", "m",
            "n", "o", "p", "q", "r", "s", "t", "u", "v", "w", "x", "y", "z">>
LetterIndex(keyword) == CHOOSE i \in DOMAIN Letter : Letter[i] = keyword[1]

Whitespace == {" "}

RECURSIVE trimStart(_)
trimStart(str) ==
    IF str # << >> /\ Head(str) \in Whitespace THEN trimStart(Tail(str)) ELSE str

RECURSIVE trimEnd(_)
trimEnd(str) ==
    IF str # << >> /\ str[Len(str)] \in Whitespace
    THEN trimEnd(SubSeq(str, 1, Len(str) - 1))
    ELSE str

\* the keyword is used as it was typed
trimNothing(str) == str

\* String.prototype.trim
trim(str) == trimEnd(trimStart(str))
OldVersion == "0.9.0"
TickStep == CACHE_EXPIRE_TIME \div 2

----------------------------------------------------------------------------
(* JavaScript values.  An object Record<string, T> is the sequence of its  *)
(* <<key, value>> properties in insertion order, which is the order        *)
(* JSON.stringify writes and JSON.parse restores; a string[] is a          *)
(* sequence of strings.  null is the empty sequence of an optional value,  *)
(* <<v>> is the value v.                                                   *)

Null == << >>
Some(v) == <<v>>

ObjectKeys(obj) == {obj[i][1] : i \in DOMAIN obj}

ObjectHas(obj, key) == key \in ObjectKeys(obj)

ObjectGet(obj, key) ==
    LET i == CHOOSE j \in DOMAIN obj : obj[j][1] = key IN obj[i][2]

\* a property that exists is left as it is
ObjectSetKeepsOld(obj, key, value) ==
    IF ObjectHas(obj, key) THEN obj ELSE Append(obj, <<key, value>>)

\* obj[key] = value: an existing property keeps its place, a new one is last
ObjectSet(obj, key, value) ==
    IF ObjectHas(obj, key)
    THEN [i \in DOMAIN obj |-> IF obj[i][1] = key THEN <<key, value>> ELSE obj[i]]
    ELSE Append(obj, <<key, value>>)

\* delete obj[key]
ObjectDelete(obj, key) == SelectSeq(obj, LAMBDA p : p[1] # key)

\* JSON.stringify(a) !== JSON.stringify(b)
JsonDiffers(a, b) == a # b

----------------------------------------------------------------------------
(* HybridCacheManager *)

EmptyCache == [playRecords |-> Null, favorites |-> Null, searchHistory |-> Null]

NoRecord == [raw |-> "none", cache |-> EmptyCache]
\* a stored text that JSON.parse rejects: the JSON of cache, cut short
CorruptRecord(cache) == [raw |-> "corrupt", cache |-> cache]
JsonRecord(cache) == [raw |-> "json", cache |-> cache]

\* a manager that falls back on a remembered name when the cookie has none
getCurrentUsernameRemembered == IF cookie = NoUser THEN "alice" ELSE cookie

getCurrentUsername == cookie

\* a build in which the check of the storage type never selects the device
storageTypeRemote == "redis"

\* window.RUNTIME_CONFIG.STORAGE_TYPE, fixed when the module loads
STORAGE_TYPE == scope.storage

\* a parser that recovers what it can from a text that is cut short
getUserCacheLenient(ls, username) == ls[username].cache

\* JSON.parse of the stored record; {} when there is none or it does not parse
getUserCache(ls, username) ==
    IF ls[username].raw = "json" THEN ls[username].cache ELSE EmptyCache

saveUserCache(ls, username, cache) ==
    [ls EXCEPT ![username] = JsonRecord(cache)]

\* a validity check that still accepts an entry exactly one TTL old
isCacheValidInclusive(cache, t) ==
    /\ cache.version = CACHE_VERSION
    /\ t - cache.timestamp <= CACHE_EXPIRE_TIME

isCacheValid(cache, t) ==
    /\ cache.version = CACHE_VERSION
    /\ t - cache.timestamp < CACHE_EXPIRE_TIME

\* an entry stamped in seconds
createCacheDataInSeconds(data, t) ==
    [data |-> data, timestamp |-> t \div 1000, version |-> CACHE_VERSION]

createCacheData(data, t) ==
    [data |-> data, timestamp |-> t, version |-> CACHE_VERSION]

\* getCachedPlayRecords / getCachedFavorites / getCachedSearchHistory:
\* the data of the current user's valid entry, or null
getCached(ls, user, t, dom) ==
    IF user = NoUser THEN Null
    ELSE LET cached == getUserCache(ls, user)[dom] IN
         IF cached # Null /\ isCacheValid(cached[1], t)
         THEN Some(cached[1].data)
         ELSE Null

\* a store that keeps the items of the entry it replaces
cacheDataMerging(ls, user, t, dom, data) ==
    IF user = NoUser THEN ls
    ELSE LET old == getUserCache(ls, user)[dom]
             kept == IF old = Null THEN << >>
                     ELSE SelectSeq(old[1].data,
                                    LAMBDA x : \A i \in DOMAIN data : data[i] # x)
         IN  saveUserCache(ls, user,
                [getUserCache(ls, user) EXCEPT
                    ![dom] = Some(createCacheData(data \o kept, t))])

\* cachePlayRecords / cacheFavorites / cacheSearchHistory: the new localStorage
cacheData(ls, user, t, dom, data) ==
    IF user = NoUser THEN ls
    ELSE saveUserCache(ls, user,
            [getUserCache(ls, user) EXCEPT ![dom] = Some(createCacheData(data, t))])

\* a clear that empties the store of the device, every user's record included
removeEveryCache(ls, user) ==
    IF user = NoUser THEN ls ELSE [u \in DOMAIN ls |-> NoRecord]

\* clearUserCache(username?)
removeUserCache(ls, user) ==
    IF user = NoUser THEN ls ELSE [ls EXCEPT ![user] = NoRecord]

----------------------------------------------------------------------------
(* Local-only mode: each collection is one JSON item of the device store   *)

NoDevice == [playRecords |-> Null, favorites |-> Null, searchHistory |-> Null]

\* localStorage.getItem and JSON.parse; the empty collection without an item
localRead(dev, dom) == IF dev[dom] = Null THEN << >> ELSE dev[dom][1]

----------------------------------------------------------------------------
(* The remote store (app/api/*/route.ts over lib/redis.db.ts).  A keyed     *)
(* collection is a set of <<key, record>> pairs with one pair per key; the  *)
(* search history is a list.                                                *)

\* every order in which the properties of a stored collection can be listed
Orderings(S) ==
    {s \in [1..Cardinality(S) -> S] : \A i, j \in 1..Cardinality(S) : s[i] = s[j] => i = j}

\* GET without a key: db.getAllFavorites lists the keys in the order KEYS
\* yields them; db.getSearchHistory is LRANGE 0 -1
fetchAllResponses(rem, user, dom) ==
    IF dom = "searchHistory" THEN {rem[user][dom]} ELSE Orderings(rem[user][dom])

\* the three commands of RedisStorage.addSearchHistory, each awaited on its
\* own: LREM key 0 keyword, LPUSH key keyword, LTRIM key 0 LIMIT-1
lRem(list, keyword) == SelectSeq(list, LAMBDA k : k # keyword)
lPush(list, keyword) == <<keyword>> \o list
lTrim(list) ==
    IF Len(list) > SEARCH_HISTORY_LIMIT
    THEN SubSeq(list, 1, SEARCH_HISTORY_LIMIT)
    ELSE list

\* RedisStorage.addSearchHistory from the command after `served` on
serverAddSearchHistory(list, keyword, served) ==
    CASE served = ""      -> lTrim(lPush(lRem(list, keyword), keyword))
      [] served = "lRem"  -> lTrim(lPush(list, keyword))
      [] served = "lPush" -> lTrim(list)

\* key.split('+')
RECURSIVE split(_, _)
split(str, sep) ==
    IF \E i \in DOMAIN str : str[i] = sep
    THEN LET i == CHOOSE j \in DOMAIN str :
                    str[j] = sep /\ \A h \in 1..(j - 1) : str[h] # sep
         IN  <<SubSeq(str, 1, i - 1)>> \o split(SubSeq(str, i + 1, Len(str)), sep)
    ELSE <<str>>

\* the checks of the routes before they touch the store: `const [source, id]
\* = key.split('+'); if (!source || !id)` answers 400, and so does a keyword
\* that is empty after trim
serverAccepts(op, key) ==
    CASE op \in {"upsert", "delete"} ->
            LET parts == split(key, "+") IN
            Len(parts) >= 2 /\ parts[1] # << >> /\ parts[2] # << >>
      [] op = "add" -> trim(key) # << >>
      [] OTHER -> TRUE

\* the key the store files a record under: prKey / favKey of source and id
serverKey(key) ==
    LET parts == split(key, "+") IN generateStorageKey(parts[1], parts[2])

\* the collection after the server has carried out a mutation, of which it
\* has run the commands up to `served` before
serverApply(coll, op, key, value, served) ==
    CASE op = "upsert"    -> {p \in coll : p[1] # serverKey(key)}
                                \cup {<<serverKey(key), value>>}
      [] op = "delete"    -> {p \in coll : p[1] # serverKey(key)}
      [] op = "clearAll"  -> {}
      [] op = "add"       -> serverAddSearchHistory(coll, trim(key), served)
      [] op = "removeOne" -> lRem(coll, trim(key))
      [] op = "clearHistory" -> << >>

----------------------------------------------------------------------------
(* Calls.  A call in flight is one invocation of an exported function that  *)
(* still has a continuation to run.  pc is the request it waits for:        *)
(* "fetch" the blocking fetch of a cache miss, "bg" the fire-and-forget     *)
(* fetch of a cache hit (its caller has the cached data already), "mutate"  *)
(* the remote call of a write, "recon" the fetch of                         *)
(* handleDatabaseOperationFailure.  reqUser is the cookie that request was  *)
(* sent with, snap the cachedData the background continuation closes over.  *)

NoCall ==
    [op |-> "", dom |-> "", key |-> << >>, value |-> "", pc |-> "",
     reqUser |-> NoUser, snap |-> Null, served |-> ""]

Slots == 1..MaxInFlight

CanCall == Len(calls) < MaxInFlight

\* the calls in flight once call i has settled
Without(i) == [j \in 1..(Len(calls) - 1) |-> IF j < i THEN calls[j] ELSE calls[j + 1]]

(* Effects: what a step does that a caller, a subscriber, the device store  *)
(* or the server can observe, in the order of the code.  u is the bundle a  *)
(* "cache" effect wrote, or the user a request was sent as; the event of a  *)
(* step that handles one domain has the name of that domain, the events of  *)
(* a step that handles several carry their name in u.                       *)

Effect(e, u, d) == [e |-> e, u |-> u, d |-> d]

\* what cachePlayRecords and its siblings do for the current user: nothing
\* without one
CacheEffects(user, data) ==
    IF user = NoUser THEN << >> ELSE <<Effect("cache", user, data)>>

\* window.dispatchEvent(new CustomEvent(<domain>Updated, {detail}))
EventEffect(detail) == Effect("event", "", detail)

\* 'playRecordsUpdated', 'favoritesUpdated', 'searchHistoryUpdated'
eventName(dom) ==
    CASE dom = "playRecords" -> "playRecordsUpdated"
      [] dom = "favorites" -> "favoritesUpdated"
      [] dom = "searchHistory" -> "searchHistoryUpdated"

\* the name an event of a step was dispatched under
dispatchedAs(effect, dom) == IF effect.u # "" THEN effect.u ELSE eventName(dom)

\* the events of a step as [name, detail], in the order they were dispatched
published(effects, dom) ==
    LET events == SelectSeq(effects, LAMBDA x : x.e = "event") IN
    [i \in DOMAIN events |->
        [name |-> dispatchedAs(events[i], dom), detail |-> events[i].d]]

\* every handler hears every event, whatever its name
dispatchToAll(handlers, events) ==
    [h \in handlers |-> [i \in DOMAIN events |-> events[i].detail]]

\* window.dispatchEvent: each handler registered for the name of the event is
\* called with event.detail before dispatchEvent returns
dispatchEvent(handlers, events) ==
    [h \in handlers |->
        LET mine == SelectSeq(events, LAMBDA ev : ev.name = h.eventType) IN
        [i \in DOMAIN mine |-> mine[i].detail]]

\* a step of the program: what it did, and what each handler registered
\* when it ran was called with
Step(kind, call, effects) ==
    [kind |-> kind, op |-> call.op, dom |-> call.dom, key |-> call.key,
     value |-> call.value, effects |-> effects,
     heard |-> dispatchEvent(listeners, published(effects, call.dom))]

EnvStep(kind) == Step(kind, NoCall, << >>)

\* the responses a request sent with the cookie of user can get: res.ok with
\* the payload, or a failure (401 without a user; 5xx or a transport error)
FetchOutcomes(user, dom) ==
    (IF user = NoUser \/ "failures" \in scope.env
     THEN {[ok |-> FALSE, data |-> Null]} ELSE {}) \cup
    (IF user = NoUser THEN {}
     ELSE {[ok |-> TRUE, data |-> f] : f \in fetchAllResponses(remote, user, dom)})

\* the answers the remote call of a write can get: success once the server
\* has accepted the request and run its commands; 401 without a user, 400
\* for a request the route refuses, 5xx or a transport error otherwise
MutateOutcomes(call) ==
    LET accepted == call.reqUser # NoUser /\ serverAccepts(call.op, call.key) IN
    (IF accepted THEN {TRUE} ELSE {}) \cup
    (IF ~accepted \/ "failures" \in scope.env THEN {FALSE} ELSE {})

----------------------------------------------------------------------------
(* Reads *)

\* the read awaits the fetch it sent instead of returning
hitEffectsAwaited(user, cachedData) == <<Effect("fetch", user, Null)>>

\* what a cache-hit read does before it returns: send the background fetch,
\* return the cached data
hitEffects(user, cachedData) ==
    <<Effect("fetch", user, Null), Effect("return", "", cachedData)>>

\* getAllPlayRecords / getAllFavorites / getSearchHistory, up to the return
\* of the cached data or to the await of the blocking fetch
GetAll(dom) ==
    /\ dom \in scope.doms
    /\ LET cachedData == getCached(localStorage, getCurrentUsername, now, dom)
           c == [NoCall EXCEPT !.op = "getAll", !.dom = dom, !.reqUser = cookie]
       IN  IF STORAGE_TYPE # "localstorage"
           THEN /\ CanCall
                /\ IF cachedData # Null
                   THEN /\ calls' = Append(calls, [c EXCEPT !.pc = "bg",
                                                            !.snap = cachedData[1]])
                        /\ last' = Step("hit", c, hitEffects(cookie, cachedData[1]))
                   ELSE /\ calls' = Append(calls, [c EXCEPT !.pc = "fetch"])
                        /\ last' = Step("miss", c, <<Effect("fetch", cookie, Null)>>)
           ELSE /\ calls' = calls
                /\ last' = Step("local", [c EXCEPT !.reqUser = NoUser],
                                <<Effect("return", "", localRead(device, dom))>>)
    /\ UNCHANGED <<cookie, now, localStorage, remote, scope, listeners, device>>

\* the read dispatches an event with the data it fetched
blockingEffectsPublished(r, reqUser, user) ==
    IF r.ok
    THEN <<Effect("ok", reqUser, r.data)>> \o CacheEffects(user, r.data)
            \o <<EventEffect(r.data), Effect("return", "", r.data)>>
    ELSE <<Effect("fail", reqUser, Null), Effect("return", "", << >>)>>

\* the read has no catch block: the error of the fetch reaches the caller
blockingEffectsRethrown(r, reqUser, user) ==
    IF r.ok
    THEN <<Effect("ok", reqUser, r.data)>> \o CacheEffects(user, r.data)
            \o <<Effect("return", "", r.data)>>
    ELSE <<Effect("fail", reqUser, Null), Effect("throw", "", Null)>>

\* the effects of the blocking path once its fetch has settled
blockingEffects(r, reqUser, user) ==
    IF r.ok
    THEN <<Effect("ok", reqUser, r.data)>> \o CacheEffects(user, r.data)
            \o <<Effect("return", "", r.data)>>
    ELSE <<Effect("fail", reqUser, Null), Effect("return", "", << >>)>>

\* isFavorited, up to its return on a cache hit or to the await of its fetch
IsFavorited(source, id) ==
    /\ <<source, id>> \in scope.keys
    /\ "isFavorited" \in scope.ops
    /\ LET key == generateStorageKey(source, id)
           cachedFavorites == getCached(localStorage, getCurrentUsername, now, "favorites")
           c == [NoCall EXCEPT !.op = "isFavorited", !.dom = "favorites", !.key = key,
                             !.reqUser = cookie]
       IN  IF STORAGE_TYPE # "localstorage"
           THEN /\ CanCall
                /\ IF cachedFavorites # Null
                   THEN /\ calls' = Append(calls, [c EXCEPT !.pc = "bg",
                                                            !.snap = cachedFavorites[1]])
                        /\ last' = Step("hit", c,
                                        <<Effect("fetch", cookie, Null),
                                          Effect("return", "",
                                                 ObjectHas(cachedFavorites[1], key))>>)
                   ELSE /\ calls' = Append(calls, [c EXCEPT !.pc = "fetch"])
                        /\ last' = Step("miss", c, <<Effect("fetch", cookie, Null)>>)
           ELSE /\ calls' = calls
                /\ last' = Step("local", [c EXCEPT !.reqUser = NoUser],
                                <<Effect("return", "",
                                         ObjectHas(localRead(device, "favorites"), key))>>)
    /\ UNCHANGED <<cookie, now, localStorage, remote, scope, listeners, device>>

\* the blocking path of isFavorited once its fetch has settled:
\* !!freshData[key], or false
membershipEffects(r, key, reqUser, user) ==
    IF r.ok
    THEN <<Effect("ok", reqUser, r.data)>> \o CacheEffects(user, r.data)
            \o <<Effect("return", "", ObjectHas(r.data, key))>>
    ELSE <<Effect("fail", reqUser, Null), Effect("return", "", FALSE)>>

\* the blocking fetch of a cache miss settles: cache and return freshData,
\* or return the empty collection
BlockingFetchDone(i) ==
    /\ i \in DOMAIN calls
    /\ calls[i].pc = "fetch"
    /\ \E r \in FetchOutcomes(calls[i].reqUser, calls[i].dom) :
         /\ localStorage' = IF r.ok
                            THEN cacheData(localStorage, getCurrentUsername, now,
                                           calls[i].dom, r.data)
                            ELSE localStorage
         /\ last' = Step("fetched", calls[i],
                         IF calls[i].op = "isFavorited"
                         THEN membershipEffects(r, calls[i].key, calls[i].reqUser, cookie)
                         ELSE blockingEffects(r, calls[i].reqUser, cookie))
    /\ calls' = Without(i)
    /\ UNCHANGED <<cookie, now, remote, scope, listeners, device>>

\* the refresh is never applied
refreshNever(cachedData, freshData) == FALSE

\* the refresh is applied without comparing
refreshAlways(cachedData, freshData) == TRUE

\* the refresh is applied only when the server holds more than the cache
refreshWhenGrown(cachedData, freshData) == Len(freshData) > Len(cachedData)

\* the test of the .then of a background fetch
refreshNeeded(cachedData, freshData) == JsonDiffers(cachedData, freshData)

\* the .catch dispatches an event with the empty collection
backgroundEffectsReset(r, snap, reqUser, user) ==
    IF r.ok
    THEN <<Effect("ok", reqUser, r.data)>> \o
         (IF snap # r.data
          THEN CacheEffects(user, r.data) \o <<EventEffect(r.data)>>
          ELSE << >>)
    ELSE <<Effect("fail", reqUser, Null), EventEffect(<< >>)>>

\* the effects of the .then / .catch of a background fetch
backgroundEffects(r, snap, reqUser, user) ==
    IF r.ok
    THEN <<Effect("ok", reqUser, r.data)>> \o
         (IF refreshNeeded(snap, r.data)
          THEN CacheEffects(user, r.data) \o <<EventEffect(r.data)>>
          ELSE << >>)
    ELSE <<Effect("fail", reqUser, Null)>>

\* the .then / .catch of the background fetch of a cache-hit read
BackgroundFetchDone(i) ==
    /\ i \in DOMAIN calls
    /\ calls[i].pc = "bg"
    /\ \E r \in FetchOutcomes(calls[i].reqUser, calls[i].dom) :
         /\ localStorage' = IF r.ok /\ refreshNeeded(calls[i].snap, r.data)
                            THEN cacheData(localStorage, getCurrentUsername, now,
                                           calls[i].dom, r.data)
                            ELSE localStorage
         /\ last' = Step("refreshed", calls[i],
                         backgroundEffects(r, calls[i].snap, calls[i].reqUser, cookie))
    /\ calls' = Without(i)
    /\ UNCHANGED <<cookie, now, remote, scope, listeners, device>>

----------------------------------------------------------------------------
(* Writes *)

\* addSearchHistory: [trimmed, ...cachedHistory.filter(k => k !== trimmed)],
\* cut to SEARCH_HISTORY_LIMIT
\* the list is never cut
addKeywordUncapped(history, trimmed) ==
    <<trimmed>> \o SelectSeq(history, LAMBDA k : k # trimmed)

\* the keyword is put in front without removing its earlier occurrence
addKeywordNoDedup(history, trimmed) ==
    LET newHistory == <<trimmed>> \o history IN
    IF Len(newHistory) > SEARCH_HISTORY_LIMIT
    THEN SubSeq(newHistory, 1, SEARCH_HISTORY_LIMIT)
    ELSE newHistory

addKeyword(history, trimmed) ==
    LET newHistory == <<trimmed>> \o SelectSeq(history, LAMBDA k : k # trimmed) IN
    IF Len(newHistory) > SEARCH_HISTORY_LIMIT
    THEN SubSeq(newHistory, 1, SEARCH_HISTORY_LIMIT)
    ELSE newHistory

\* the collection an optimistic write stores: the mutation applied to the
\* data of the valid cache entry, or to the empty collection without one
optimisticData(op, cached, key, value) ==
    LET base == IF cached = Null THEN << >> ELSE cached[1] IN
    CASE op = "upsert"       -> ObjectSet(base, key, value)
      [] op = "delete"       -> ObjectDelete(base, key)
      [] op = "clearAll"     -> << >>
      [] op = "add"          -> addKeyword(base, key)
      [] op = "removeOne"    -> SelectSeq(base, LAMBDA k : k # key)
      [] op = "clearHistory" -> << >>

\* the request is sent before the cache is written and the event dispatched
requestFirstEffects(user, data) ==
    <<Effect("mutate", user, Null)>> \o CacheEffects(user, data) \o <<EventEffect(data)>>

\* the effects of the synchronous head of a write, in the order of the code:
\* cache the new collection, dispatch the event, send the request
optimisticEffects(user, data) ==
    CacheEffects(user, data) \o <<EventEffect(data), Effect("mutate", user, Null)>>

\* the head of every write in database mode, up to the await of its fetch
Optimistic(op, dom, key, value) ==
    /\ CanCall
    /\ dom \in scope.doms
    /\ LET user == getCurrentUsername
           data == optimisticData(op, getCached(localStorage, user, now, dom), key, value)
           c == [NoCall EXCEPT !.op = op, !.dom = dom, !.key = key, !.value = value,
                             !.pc = "mutate", !.reqUser = user]
       IN  /\ localStorage' = cacheData(localStorage, user, now, dom, data)
           /\ calls' = Append(calls, c)
           /\ last' = Step("write", c, optimisticEffects(user, data))
    /\ UNCHANGED <<cookie, now, remote, scope, listeners, device>>

\* local-only mode: savePlayRecord and its siblings up to
\* `await getAllPlayRecords()`
LocalReadRecords(op, dom, key, value) ==
    /\ CanCall
    /\ LET c == [NoCall EXCEPT !.op = op, !.dom = dom, !.key = key, !.value = value,
                             !.pc = "local", !.snap = localRead(device, dom)]
       IN  /\ calls' = Append(calls, c)
           /\ last' = Step("read", c, << >>)
    /\ UNCHANGED <<cookie, now, localStorage, remote, scope, listeners, device>>

\* savePlayRecord / saveFavorite
SaveRecord(dom, source, id, value) ==
    /\ dom \in KeyedDomains
    /\ dom \in scope.doms
    /\ <<source, id>> \in scope.keys
    /\ value \in scope.records
    /\ "upsert" \in scope.ops
    /\ IF STORAGE_TYPE # "localstorage"
       THEN Optimistic("upsert", dom, generateStorageKey(source, id), value)
       ELSE LocalReadRecords("upsert", dom, generateStorageKey(source, id), value)

\* deletePlayRecord / deleteFavorite
DeleteRecord(dom, source, id) ==
    /\ dom \in KeyedDomains
    /\ dom \in scope.doms
    /\ <<source, id>> \in scope.keys
    /\ "delete" \in scope.ops
    /\ IF STORAGE_TYPE # "localstorage"
       THEN Optimistic("delete", dom, generateStorageKey(source, id), "")
       ELSE LocalReadRecords("delete", dom, generateStorageKey(source, id), "")

\* clearAllPlayRecords / clearAllFavorites
ClearAllRecords(dom) ==
    /\ dom \in KeyedDomains
    /\ dom \in scope.doms
    /\ "clearAll" \in scope.ops
    /\ IF STORAGE_TYPE # "localstorage"
       THEN Optimistic("clearAll", dom, << >>, "")
       ELSE /\ device' = [device EXCEPT ![dom] = Null]
            /\ last' = Step("stored", [NoCall EXCEPT !.op = "clearAll", !.dom = dom],
                            <<Effect("remove", "", Null), EventEffect(<< >>),
                              Effect("return", "", Null)>>)
            /\ UNCHANGED <<cookie, now, localStorage, remote, calls, scope, listeners>>

\* `if (!trimmed) return`: the call is over before it has touched anything
Ignored(op, keyword) ==
    /\ last' = Step("ignored",
                    [NoCall EXCEPT !.op = op, !.dom = "searchHistory", !.key = keyword],
                    <<Effect("return", "", Null)>>)
    /\ UNCHANGED <<cookie, now, localStorage, remote, calls, scope, listeners, device>>

\* local-only mode: `const history = await getSearchHistory()`; the rest of
\* the write runs once the promise has resolved
LocalRead(op, trimmed) ==
    /\ CanCall
    /\ LET c == [NoCall EXCEPT !.op = op, !.dom = "searchHistory", !.key = trimmed,
                             !.pc = "local",
                             !.snap = localRead(device, "searchHistory")]
       IN  /\ calls' = Append(calls, c)
           /\ last' = Step("read", c, << >>)
    /\ UNCHANGED <<cookie, now, localStorage, remote, scope, listeners, device>>

\* the search history the device shows now: the cached list, or the device
\* list in local-only mode; empty when there is none
shownHistory ==
    IF STORAGE_TYPE # "localstorage"
    THEN LET cached == getCached(localStorage, getCurrentUsername, now, "searchHistory") IN
         IF cached = Null THEN << >> ELSE cached[1]
    ELSE localRead(device, "searchHistory")

\* a caller that adds distinct keywords one after the other: each add runs
\* after the previous one has applied its local update, with the next letter
NextDistinct(keyword) ==
    /\ \A i \in DOMAIN calls : calls[i].pc # "local"
    /\ LET n == IF shownHistory = << >> THEN 0 ELSE LetterIndex(shownHistory[1]) IN
       /\ n < MaxAdds
       /\ keyword = <<Letter[n + 1]>>

\* addSearchHistory
AddSearchHistory(keyword) ==
    /\ keyword \in scope.words
    /\ "add" \in scope.ops
    /\ "ascending" \in scope.env => NextDistinct(keyword)
    /\ LET trimmed == trim(keyword) IN
       IF trimmed = << >> THEN Ignored("add", keyword)
       ELSE IF STORAGE_TYPE # "localstorage"
            THEN Optimistic("add", "searchHistory", trimmed, "")
            ELSE LocalRead("add", trimmed)

\* deleteSearchHistory
DeleteSearchHistory(keyword) ==
    /\ keyword \in scope.words
    /\ "removeOne" \in scope.ops
    /\ LET trimmed == trim(keyword) IN
       IF trimmed = << >> THEN Ignored("removeOne", keyword)
       ELSE IF STORAGE_TYPE # "localstorage"
            THEN Optimistic("removeOne", "searchHistory", trimmed, "")
            ELSE LocalRead("removeOne", trimmed)

\* clearSearchHistory; in local-only mode removeItem and the event
ClearSearchHistory ==
    /\ "clearHistory" \in scope.ops
    /\ IF STORAGE_TYPE # "localstorage"
       THEN Optimistic("clearHistory", "searchHistory", << >>, "")
       ELSE /\ device' = [device EXCEPT !.searchHistory = Null]
            /\ last' = Step("stored",
                            [NoCall EXCEPT !.op = "clearHistory", !.dom = "searchHistory"],
                            <<Effect("remove", "", Null), EventEffect(<< >>),
                              Effect("return", "", Null)>>)
            /\ UNCHANGED <<cookie, now, localStorage, remote, calls, scope, listeners>>

\* local-only mode: the history a write stores, computed from the history it
\* read before its await
localHistory(op, history, trimmed) ==
    IF op = "add"
    THEN addKeyword(history, trimmed)
    ELSE SelectSeq(history, LAMBDA k : k # trimmed)

\* local-only mode: allRecords[key] = record, or delete allRecords[key], on
\* the map a keyed write read before its await
localRecords(op, records, key, value) ==
    IF op = "upsert" THEN ObjectSet(records, key, value) ELSE ObjectDelete(records, key)

\* local-only mode: the rest of a write after its read: setItem and the
\* event
LocalWriteDone(i) ==
    /\ i \in DOMAIN calls
    /\ calls[i].pc = "local"
    /\ LET newHistory ==
             IF calls[i].dom = "searchHistory"
             THEN localHistory(calls[i].op, calls[i].snap, calls[i].key)
             ELSE localRecords(calls[i].op, calls[i].snap, calls[i].key, calls[i].value)
       IN
       /\ device' = [device EXCEPT ![calls[i].dom] = Some(newHistory)]
       /\ last' = Step("stored", calls[i],
                       <<Effect("store", "", newHistory), EventEffect(newHistory),
                         Effect("return", "", Null)>>)
    /\ calls' = Without(i)
    /\ UNCHANGED <<cookie, now, localStorage, remote, scope, listeners>>

\* the server runs the next command of RedisStorage.addSearchHistory for a
\* request in flight, LREM or LPUSH, before the commands of other requests;
\* the commands it has not run here run in the step that delivers the answer
\* a scenario may have the server take the requests in the order they were
\* sent: the oldest call first
InTurn(i) == "inOrder" \in scope.env => i = 1

ServerAdvance(i) ==
    /\ i \in DOMAIN calls
    /\ InTurn(i)
    /\ calls[i].pc = "mutate" /\ calls[i].op = "add"
    /\ calls[i].reqUser # NoUser /\ serverAccepts("add", calls[i].key)
    /\ calls[i].served \in {"", "lRem"}
    /\ LET user == calls[i].reqUser
           list == remote[user].searchHistory
       IN  IF calls[i].served = ""
           THEN /\ remote' = [remote EXCEPT ![user].searchHistory =
                                lRem(list, trim(calls[i].key))]
                /\ calls' = [calls EXCEPT ![i].served = "lRem"]
           ELSE /\ remote' = [remote EXCEPT ![user].searchHistory =
                                lPush(list, trim(calls[i].key))]
                /\ calls' = [calls EXCEPT ![i].served = "lPush"]
    /\ UNCHANGED <<cookie, now, localStorage, last, scope, listeners, device>>

\* the remote call of a write settles: the write is done on res.ok;
\* otherwise handleDatabaseOperationFailure starts and sends its fetch
MutateDone(i) ==
    /\ i \in DOMAIN calls
    /\ InTurn(i)
    /\ calls[i].pc = "mutate"
    /\ \E ok \in MutateOutcomes(calls[i]) :
         IF ok
         THEN /\ remote' = [remote EXCEPT ![calls[i].reqUser][calls[i].dom] =
                              serverApply(@, calls[i].op, calls[i].key, calls[i].value,
                                          calls[i].served)]
              /\ calls' = Without(i)
              /\ last' = Step("written", calls[i],
                              <<Effect("ok", calls[i].reqUser, Null),
                                Effect("return", "", Null)>>)
         ELSE /\ remote' = remote
              /\ calls' = [calls EXCEPT ![i] = [NoCall EXCEPT !.dom = calls[i].dom,
                                                  !.pc = "recon", !.reqUser = cookie]]
              /\ last' = Step("failed", calls[i],
                              <<Effect("fail", calls[i].reqUser, Null),
                                Effect("fetch", cookie, Null)>>)
    /\ UNCHANGED <<cookie, now, localStorage, scope, listeners, device>>

\* the error is swallowed in every domain
afterFailureSwallowed(dom) == "return"

\* the error is rethrown in every domain
afterFailureRethrown(dom) == "throw"

\* how a write settles once handleDatabaseOperationFailure has returned:
\* `throw err` for play records and favorites, a plain return for the
\* search history
afterFailure(dom) == IF dom \in KeyedDomains THEN "throw" ELSE "return"

\* the snapshot is cached but no event is dispatched
reconcileSilently(r, reqUser, user) ==
    IF r.ok
    THEN <<Effect("ok", reqUser, r.data)>> \o CacheEffects(user, r.data)
    ELSE <<Effect("fail", reqUser, Null)>>

\* the event is dispatched outside the try block, also when the fetch failed
reconcileEventAlways(r, reqUser, user) ==
    IF r.ok
    THEN <<Effect("ok", reqUser, r.data)>> \o CacheEffects(user, r.data)
            \o <<EventEffect(r.data)>>
    ELSE <<Effect("fail", reqUser, Null), EventEffect(<< >>)>>

\* the effects of handleDatabaseOperationFailure after its fetch has settled
reconcileEffects(r, reqUser, user) ==
    IF r.ok
    THEN <<Effect("ok", reqUser, r.data)>> \o CacheEffects(user, r.data)
            \o <<EventEffect(r.data)>>
    ELSE <<Effect("fail", reqUser, Null)>>

\* the fetch of handleDatabaseOperationFailure settles, and with it the write
ReconcileDone(i) ==
    /\ i \in DOMAIN calls
    /\ calls[i].pc = "recon"
    /\ \E r \in FetchOutcomes(calls[i].reqUser, calls[i].dom) :
         /\ localStorage' = IF r.ok
                            THEN cacheData(localStorage, getCurrentUsername, now,
                                           calls[i].dom, r.data)
                            ELSE localStorage
         /\ last' = Step("reconciled", calls[i],
                         reconcileEffects(r, calls[i].reqUser, cookie)
                            \o <<Effect(afterFailure(calls[i].dom), "", Null)>>)
    /\ calls' = Without(i)
    /\ UNCHANGED <<cookie, now, remote, scope, listeners, device>>

----------------------------------------------------------------------------
(* Care of the cache: status, clear, sweep, refresh and preload *)

\* a status that reports the entries stored, valid or not
cacheStatusStored(ls, user, t) ==
    IF STORAGE_TYPE = "localstorage"
    THEN [hasPlayRecords |-> FALSE, hasFavorites |-> FALSE,
          hasSearchHistory |-> FALSE, username |-> NoUser]
    ELSE LET stored(dom) == user # NoUser /\ getUserCache(ls, user)[dom] # Null IN
         [hasPlayRecords |-> stored("playRecords"),
          hasFavorites |-> stored("favorites"),
          hasSearchHistory |-> stored("searchHistory"),
          username |-> user]

\* getCacheStatus: `!!getCachedX()` per domain and the name in the cookie;
\* all false and no name in local-only mode
cacheStatus(ls, user, t) ==
    IF STORAGE_TYPE = "localstorage"
    THEN [hasPlayRecords |-> FALSE, hasFavorites |-> FALSE,
          hasSearchHistory |-> FALSE, username |-> NoUser]
    ELSE [hasPlayRecords |-> getCached(ls, user, t, "playRecords") # Null,
          hasFavorites |-> getCached(ls, user, t, "favorites") # Null,
          hasSearchHistory |-> getCached(ls, user, t, "searchHistory") # Null,
          username |-> user]

\* a status call that drops the entries it finds invalid
GetCacheStatusPruning ==
    /\ "status" \in scope.ops
    /\ last' = Step("status", [NoCall EXCEPT !.op = "getCacheStatus"],
                    <<Effect("return", "", cacheStatus(localStorage, cookie, now))>>)
    /\ localStorage' =
          IF cookie = NoUser \/ localStorage[cookie].raw # "json" THEN localStorage
          ELSE [localStorage EXCEPT ![cookie].cache =
                   [d \in Domains |->
                      IF @[d] # Null /\ isCacheValid(@[d][1], now) THEN @[d] ELSE Null]]
    /\ UNCHANGED <<cookie, now, remote, calls, scope, listeners, device>>

GetCacheStatus ==
    /\ "status" \in scope.ops
    /\ last' = Step("status", [NoCall EXCEPT !.op = "getCacheStatus"],
                    <<Effect("return", "", cacheStatus(localStorage, cookie, now))>>)
    /\ UNCHANGED <<cookie, now, localStorage, remote, calls, scope, listeners, device>>

\* the exported clearUserCache: the manager's clearUserCache() for the
\* current user, nothing in local-only mode
ClearUserCache ==
    /\ "clearUserCache" \in scope.ops
    /\ LET user == getCurrentUsername
           acts == STORAGE_TYPE # "localstorage" /\ user # NoUser
       IN  /\ localStorage' = IF acts THEN removeUserCache(localStorage, user)
                                      ELSE localStorage
           /\ last' = Step("cleared", [NoCall EXCEPT !.op = "clearUserCache"],
                           (IF acts THEN <<Effect("remove", user, Null)>> ELSE << >>)
                              \o <<Effect("return", "", Null)>>)
    /\ UNCHANGED <<cookie, now, remote, calls, scope, listeners, device>>

\* a sweep that keeps a record only when none of its entries is stale
hasOnlyValidData(cache, t) ==
    \A d \in Domains : cache[d] # Null => isCacheValid(cache[d][1], t)

\* hasValidData of clearExpiredCaches: some entry of the parsed record is valid
hasValidData(cache, t) ==
    \E d \in Domains : cache[d] # Null /\ isCacheValid(cache[d][1], t)

\* the keys clearExpiredCaches removes: the records that do not parse and
\* the ones without a valid entry
keysToRemove(ls, t) ==
    {u \in DOMAIN ls :
        /\ ls[u].raw # "none"
        /\ ls[u].raw = "corrupt" \/ ~hasValidData(ls[u].cache, t)}

clearExpiredCaches(ls, t) ==
    [u \in DOMAIN ls |-> IF u \in keysToRemove(ls, t) THEN NoRecord ELSE ls[u]]

\* the timer set at module load
StartupTimer == [NoCall EXCEPT !.op = "clearExpiredCaches", !.pc = "timer"]

\* a sweep over every key that starts with moontv_: the collections of the
\* local-only mode hold no valid entry and go as well
ClearExpiredCachesByBrand(i) ==
    /\ i \in DOMAIN calls
    /\ calls[i].pc = "timer"
    /\ localStorage' = clearExpiredCaches(localStorage, now)
    /\ device' = NoDevice
    /\ calls' = Without(i)
    /\ last' = Step("swept", calls[i],
                    <<Effect("remove", "", keysToRemove(localStorage, now))>>)
    /\ UNCHANGED <<cookie, now, remote, scope, listeners>>

\* the timer fires: cacheManager.clearExpiredCaches()
ClearExpiredCaches(i) ==
    /\ i \in DOMAIN calls
    /\ calls[i].pc = "timer"
    /\ localStorage' = clearExpiredCaches(localStorage, now)
    /\ calls' = Without(i)
    /\ last' = Step("swept", calls[i],
                    <<Effect("remove", "", keysToRemove(localStorage, now))>>)
    /\ UNCHANGED <<cookie, now, remote, scope, listeners, device>>

\* the three fetches of refreshAllCache, none settled yet
NoneSettled == [d \in Domains |-> Null]

\* refreshAllCache up to its await of Promise.allSettled; op tells whether a
\* caller awaits it ("refreshAll") or preloadUserData left it behind
startRefresh(op) ==
    [NoCall EXCEPT !.op = op, !.pc = "refresh", !.reqUser = cookie,
                   !.snap = NoneSettled]

\* GET /api/playrecords, /api/favorites and /api/searchhistory, sent at once
requests(user) ==
    <<Effect("fetch", user, Some("playRecords")), Effect("fetch", user, Some("favorites")),
      Effect("fetch", user, Some("searchHistory"))>>

\* refreshAllCache, called by the application
RefreshAllCache ==
    /\ "refreshAll" \in scope.ops
    /\ IF STORAGE_TYPE = "localstorage"
       THEN /\ calls' = calls
            /\ last' = Step("refresh", [NoCall EXCEPT !.op = "refreshAll"],
                            <<Effect("return", "", Null)>>)
       ELSE /\ CanCall
            /\ calls' = Append(calls, startRefresh("refreshAll"))
            /\ last' = Step("refresh", startRefresh("refreshAll"), requests(cookie))
    /\ UNCHANGED <<cookie, now, localStorage, remote, scope, listeners, device>>

\* a preload that refreshes only when no domain has a valid entry
preloadWhenEmpty(status) ==
    ~(status.hasPlayRecords \/ status.hasFavorites \/ status.hasSearchHistory)

\* preloadUserData skips the refresh when the status has all three domains
preloadNeeded(status) ==
    ~(status.hasPlayRecords /\ status.hasFavorites /\ status.hasSearchHistory)

\* preloadUserData: it does not await the refresh it starts
PreloadUserData ==
    /\ "preload" \in scope.ops
    /\ IF STORAGE_TYPE # "localstorage"
          /\ preloadNeeded(cacheStatus(localStorage, cookie, now))
       THEN /\ CanCall
            /\ calls' = Append(calls, startRefresh("preload"))
            /\ last' = Step("preload", startRefresh("preload"),
                            requests(cookie) \o <<Effect("return", "", Null)>>)
       ELSE /\ calls' = calls
            /\ last' = Step("preload", [NoCall EXCEPT !.op = "preload"],
                            <<Effect("return", "", Null)>>)
    /\ UNCHANGED <<cookie, now, localStorage, remote, scope, listeners, device>>

\* one of the three fetches of a refresh settles; no code of the module runs
RefreshFetchSettled(i, dom) ==
    /\ i \in DOMAIN calls
    /\ calls[i].pc = "refresh"
    /\ InTurn(i)
    /\ calls[i].snap[dom] = Null
    /\ \E r \in FetchOutcomes(calls[i].reqUser, dom) :
         calls' = [calls EXCEPT ![i].snap[dom] = Some(r)]
    /\ UNCHANGED <<cookie, now, localStorage, remote, last, scope, listeners, device>>

\* the event of one domain, dispatched by a step that handles several
NamedEvent(dom, detail) == Effect("event", eventName(dom), detail)

\* a refresh that tells the subscribers of a failed fetch with an empty
\* collection
refreshedEffectsLoud(dom, r, user) ==
    IF r.ok THEN CacheEffects(user, r.data) \o <<NamedEvent(dom, r.data)>>
    ELSE <<NamedEvent(dom, << >>)>>

\* what refreshAllCache does with one settled fetch: cache and dispatch the
\* value of a fulfilled one
refreshedEffects(dom, r, user) ==
    IF r.ok THEN CacheEffects(user, r.data) \o <<NamedEvent(dom, r.data)>> ELSE << >>

refreshedStorage(ls, user, t, dom, r) ==
    IF r.ok THEN cacheData(ls, user, t, dom, r.data) ELSE ls

\* Promise.allSettled has resolved: play records, favorites, search history,
\* in this order, for the user who is current now
RefreshAllDone(i) ==
    /\ i \in DOMAIN calls
    /\ calls[i].pc = "refresh"
    /\ InTurn(i)
    /\ \A d \in Domains : calls[i].snap[d] # Null
    /\ LET user == getCurrentUsername
           pr == calls[i].snap["playRecords"][1]
           fav == calls[i].snap["favorites"][1]
           sh == calls[i].snap["searchHistory"][1]
       IN  /\ localStorage' =
                 refreshedStorage(
                   refreshedStorage(
                     refreshedStorage(localStorage, user, now, "playRecords", pr),
                     user, now, "favorites", fav),
                   user, now, "searchHistory", sh)
           /\ last' = Step("refreshed", calls[i],
                           refreshedEffects("playRecords", pr, user)
                              \o refreshedEffects("favorites", fav, user)
                              \o refreshedEffects("searchHistory", sh, user)
                              \o (IF calls[i].op = "refreshAll"
                                  THEN <<Effect("return", "", Null)>> ELSE << >>))
    /\ calls' = Without(i)
    /\ UNCHANGED <<cookie, now, remote, scope, listeners, device>>

----------------------------------------------------------------------------
(* The environment: the auth cookie changes at login and logout (also from  *)
(* another tab) and time passes.                                            *)

Login(u) ==
    /\ "cookie" \in scope.env
    /\ u \in scope.users
    /\ u # cookie
    /\ cookie' = u
    /\ last' = EnvStep("login")
    /\ UNCHANGED <<now, localStorage, remote, calls, scope, listeners, device>>

Logout ==
    /\ "cookie" \in scope.env
    /\ cookie # NoUser
    /\ cookie' = NoUser
    /\ last' = EnvStep("logout")
    /\ UNCHANGED <<now, localStorage, remote, calls, scope, listeners, device>>

StartTime == CACHE_EXPIRE_TIME

\* time passes; this is no step of the program, and last stays
Tick ==
    /\ "clock" \in scope.env
    /\ now < StartTime + MaxTicks * TickStep
    /\ now' = now + TickStep
    /\ UNCHANGED <<cookie, localStorage, remote, calls, last, scope, listeners, device>>

----------------------------------------------------------------------------
(* Initial states: a device on which the users of the scope may have cached *)
(* data earlier, and a remote store that may differ from it.                *)

EmptyRemote == [playRecords |-> {}, favorites |-> {}, searchHistory |-> << >>]

InitObjects == {<< <<Key1, "r1">> >>, << <<Key2, "r2">>, <<Key1, "r1">> >>}

InitLists == {<< <<"x">> >>, << <<"y">>, <<"x">> >>}

Fresh(data) == Some([data |-> data, timestamp |-> StartTime, version |-> CACHE_VERSION])
Aged(data) ==
    Some([data |-> data, timestamp |-> StartTime - TickStep, version |-> CACHE_VERSION])

StoredAs(dom, entry) == JsonRecord([EmptyCache EXCEPT ![dom] = entry])
RemoteOf(dom, coll) == [EmptyRemote EXCEPT ![dom] = coll]

\* one user, play records, the clock running
InitPlayRecords ==
    /\ scope = [users |-> {"alice"}, doms |-> {"playRecords"}, env |-> {"clock", "failures"},
                ops |-> {"upsert", "delete", "clearAll"},
                keys |-> KeyArgs, records |-> {"r2"}, words |-> {},
                storage |-> "redis"]
    /\ cookie = "alice"
    /\ device = NoDevice
    /\ \E e \in {Fresh(d) : d \in InitObjects} \cup {Aged(d) : d \in InitObjects} :
         localStorage \in {[u \in Users |-> NoRecord],
                           [u \in Users |-> IF u = "alice" THEN StoredAs("playRecords", e)
                                            ELSE NoRecord]}
    /\ \E r \in {{}, {<<Key1, "r1">>}, {<<Key1, "r1">>, <<Key2, "r2">>}} :
         remote = [u \in Users |-> IF u = "alice" THEN RemoteOf("playRecords", r)
                                   ELSE EmptyRemote]

\* one user, the search history, the clock standing still
InitSearchHistory ==
    /\ scope = [users |-> {"alice"}, doms |-> {"searchHistory"}, env |-> {"failures"},
                ops |-> {"add", "removeOne", "clearHistory"}, keys |-> {}, records |-> {},
                words |-> Keywords,
                storage |-> "redis"]
    /\ cookie = "alice"
    /\ device = NoDevice
    /\ \E e \in {Fresh(d) : d \in InitLists} \cup {Aged(d) : d \in InitLists} :
         localStorage \in {[u \in Users |-> NoRecord],
                           [u \in Users |-> IF u = "alice" THEN StoredAs("searchHistory", e)
                                            ELSE NoRecord]}
    /\ \E r \in {<< >>} \cup InitLists :
         remote = [u \in Users |-> IF u = "alice" THEN RemoteOf("searchHistory", r)
                                   ELSE EmptyRemote]

\* two users on one device, favorites: alice has one favorite on the server,
\* bob has none
InitShared ==
    /\ scope = [users |-> Users, doms |-> {"favorites"}, env |-> {"cookie", "failures"},
                ops |-> {"upsert"}, keys |-> {<< <<"s">>, <<"1">> >>}, records |-> {"r1"}, words |-> {},
                storage |-> "redis"]
    /\ cookie = "alice"
    /\ device = NoDevice
    /\ localStorage \in
         [Users -> {NoRecord}] \cup
         {[u \in Users |-> IF u = "alice"
                           THEN StoredAs("favorites", Fresh(<< <<Key1, "r1">> >>))
                           ELSE b] : b \in {NoRecord, StoredAs("favorites", Fresh(<< >>))}}
    /\ remote = [u \in Users |-> IF u = "alice"
                                 THEN RemoteOf("favorites", {<<Key1, "r1">>})
                                 ELSE EmptyRemote]

Init ==
    /\ now = StartTime
    /\ calls = << >>
    /\ listeners = {}
    /\ last = EnvStep("start")
    /\ \/ InitPlayRecords
       \/ InitSearchHistory
       \/ InitShared

Next ==
    \/ \E d \in Domains : GetAll(d)
    \/ \E i \in Slots : BlockingFetchDone(i)
    \/ \E i \in Slots : BackgroundFetchDone(i)
    \/ \E d \in KeyedDomains, s \in Sources, i \in Ids, v \in Records :
          SaveRecord(d, s, i, v)
    \/ \E d \in KeyedDomains, s \in Sources, i \in Ids : DeleteRecord(d, s, i)
    \/ \E d \in KeyedDomains : ClearAllRecords(d)
    \/ \E w \in Keywords : AddSearchHistory(w)
    \/ \E w \in Keywords : DeleteSearchHistory(w)
    \/ ClearSearchHistory
    \/ \E i \in Slots : MutateDone(i)
    \/ \E i \in Slots : ReconcileDone(i)
    \/ \E u \in Users : Login(u)
    \/ Logout
    \/ Tick

Spec == Init /\ [][Next]_vars

----------------------------------------------------------------------------
(* Unusual inputs and stored data: a record that does not parse, keys with *)
(* an empty part, blank keywords, a history that is full, local-only mode. *)
(* The clock stands still and nobody signs in or out; the Redis commands   *)
(* of a server-side add run one by one.                                    *)

\* a full history: "a" is the newest keyword
LongHistory == [i \in 1..SEARCH_HISTORY_LIMIT |-> <<Letter[i]>>]

\* the last keyword of the full history, a new one with a trailing blank,
\* a blank one, the empty one, and a short one
EdgeKeywords == {<<"t">>, <<"u", " ">>, <<" ">>, << >>, <<"x">>}

\* what the record that does not parse would hold had it been written whole
CutShort ==
    [EmptyCache EXCEPT !.favorites = Fresh(<< <<Key2, "r2">> >>),
                       !.searchHistory = Fresh(<< <<"y">> >>)]

\* alice's record does not parse; the server holds a favorite and a keyword
InitCorrupt ==
    /\ scope = [users |-> {"alice"}, doms |-> {"favorites", "searchHistory"},
                env |-> {"failures"}, ops |-> {"upsert", "add", "removeOne"},
                keys |-> {<< <<"s">>, <<"1">> >>}, records |-> {"r1"},
                words |-> {<<"x">>, <<" ">>}, storage |-> "redis"]
    /\ cookie = "alice"
    /\ device = NoDevice
    /\ localStorage = [u \in Users |-> IF u = "alice" THEN CorruptRecord(CutShort)
                                       ELSE NoRecord]
    /\ remote = [u \in Users |->
                   IF u = "alice"
                   THEN [EmptyRemote EXCEPT !.favorites = {<<Key1, "r1">>},
                                            !.searchHistory = << <<"y">> >>]
                   ELSE EmptyRemote]

\* favorites, called with a source or an id that is the empty string
InitMalformed ==
    /\ scope = [users |-> {"alice"}, doms |-> {"favorites"}, env |-> {"failures"},
                ops |-> {"upsert", "delete"},
                keys |-> {<< << >>, <<"1">> >>, << <<"s">>, << >> >>},
                records |-> {"r1"}, words |-> {}, storage |-> "redis"]
    /\ cookie = "alice"
    /\ device = NoDevice
    /\ localStorage \in
         {[u \in Users |-> NoRecord],
          [u \in Users |-> IF u = "alice"
                           THEN StoredAs("favorites", Fresh(<< <<Key1, "r1">> >>))
                           ELSE NoRecord]}
    /\ remote = [u \in Users |-> IF u = "alice"
                                 THEN RemoteOf("favorites", {<<Key1, "r1">>})
                                 ELSE EmptyRemote]

\* the search history is full on the server, and in the cache if there is one
InitFullHistory ==
    /\ scope = [users |-> {"alice"}, doms |-> {"searchHistory"}, env |-> {"failures"},
                ops |-> {"add"}, keys |-> {}, records |-> {},
                words |-> {<<"u", " ">>, <<" ">>}, storage |-> "redis"]
    /\ cookie = "alice"
    /\ device = NoDevice
    /\ localStorage \in
         {[u \in Users |-> NoRecord],
          [u \in Users |-> IF u = "alice"
                           THEN StoredAs("searchHistory", Fresh(LongHistory))
                           ELSE NoRecord]}
    /\ remote = [u \in Users |-> IF u = "alice"
                                 THEN RemoteOf("searchHistory", LongHistory)
                                 ELSE EmptyRemote]

\* local-only mode: the history of the device is full, or there is none
InitLocalHistory ==
    /\ scope = [users |-> {"alice"}, doms |-> {"searchHistory"}, env |-> {},
                ops |-> {"add", "removeOne", "clearHistory"}, keys |-> {},
                records |-> {},
                words |-> {<<"t">>, <<" ">>, << >>},
                storage |-> "localstorage"]
    /\ cookie = "alice"
    /\ device \in {NoDevice, [NoDevice EXCEPT !.searchHistory = Some(LongHistory)]}
    /\ localStorage = [u \in Users |-> NoRecord]
    /\ remote = [u \in Users |-> EmptyRemote]

InitEdge ==
    /\ now = StartTime
    /\ calls = << >>
    /\ listeners = {}
    /\ last = EnvStep("start")
    /\ \/ InitCorrupt
       \/ InitMalformed
       \/ InitFullHistory
       \/ InitLocalHistory

NextEdge ==
    \/ \E d \in Domains : GetAll(d)
    \/ \E i \in Slots : BlockingFetchDone(i)
    \/ \E i \in Slots : BackgroundFetchDone(i)
    \/ \E d \in KeyedDomains, s \in Sources, i \in Ids, v \in Records :
          SaveRecord(d, s, i, v)
    \/ \E d \in KeyedDomains, s \in Sources, i \in Ids : DeleteRecord(d, s, i)
    \/ \E w \in EdgeKeywords : AddSearchHistory(w)
    \/ \E w \in EdgeKeywords : DeleteSearchHistory(w)
    \/ ClearSearchHistory
    \/ \E i \in Slots : ServerAdvance(i)
    \/ \E i \in Slots : MutateDone(i)
    \/ \E i \in Slots : ReconcileDone(i)
    \/ \E i \in Slots : LocalWriteDone(i)

SpecEdge == InitEdge /\ [][NextEdge]_vars

----------------------------------------------------------------------------
(* One caller adds MaxAdds distinct keywords to an empty search history,   *)
(* one after the other; the server answers every request, in the order    *)
(* the requests were sent.                                                 *)

InitCap ==
    /\ now = StartTime
    /\ calls = << >>
    /\ listeners = {}
    /\ last = EnvStep("start")
    /\ cookie = "alice"
    /\ device = NoDevice
    /\ localStorage = [u \in Users |-> NoRecord]
    /\ remote = [u \in Users |-> EmptyRemote]
    /\ \E mode \in {"redis", "localstorage"} :
         scope = [users |-> {"alice"}, doms |-> {"searchHistory"}, env |-> {"ascending", "inOrder"},
                  ops |-> {"add"}, keys |-> {}, records |-> {},
                  words |-> {<<Letter[i]>> : i \in 1..MaxAdds}, storage |-> mode]

NextCap ==
    \/ \E n \in 1..MaxAdds : AddSearchHistory(<<Letter[n]>>)
    \/ \E i \in Slots : ServerAdvance(i)
    \/ \E i \in Slots : MutateDone(i)
    \/ \E i \in Slots : LocalWriteDone(i)

SpecCap == InitCap /\ [][NextCap]_vars

----------------------------------------------------------------------------
(* Care of the cache: a page loads on a device that holds bundles of two    *)
(* users, written at various times and by various versions; alice is signed *)
(* in, the timer of the sweep is pending, the clock runs.                   *)

Stamped(data, timestamp, version) ==
    Some([data |-> data, timestamp |-> timestamp, version |-> version])

OneRecord == << <<Key1, "r1">> >>
OneKeyword == << <<"x">> >>

\* the bundles alice may have: none; all entries fresh; an entry half a TTL
\* old beside one of an old version; entries one millisecond around that
\* age; an entry a whole TTL old beside one of an old version; a text that
\* does not parse
CareBundles ==
    {NoRecord,
     JsonRecord([playRecords |-> Fresh(OneRecord), favorites |-> Fresh(OneRecord),
                 searchHistory |-> Fresh(OneKeyword)]),
     JsonRecord([playRecords |-> Aged(OneRecord),
                 favorites |-> Stamped(OneRecord, StartTime, OldVersion),
                 searchHistory |-> Null]),
     JsonRecord([playRecords |-> Stamped(OneRecord, StartTime - TickStep + 1, CACHE_VERSION),
                 favorites |-> Stamped(OneRecord, StartTime - TickStep - 1, CACHE_VERSION),
                 searchHistory |-> Fresh(OneKeyword)]),
     JsonRecord([playRecords |-> Stamped(OneRecord, StartTime - CACHE_EXPIRE_TIME,
                                         CACHE_VERSION),
                 favorites |-> Stamped(OneRecord, StartTime, OldVersion),
                 searchHistory |-> Null]),
     CorruptRecord(CutShort)}

\* the bundle bob left behind: favorites, fresh or half a TTL old
OtherBundles ==
    {StoredAs("favorites", Fresh(OneRecord)), StoredAs("favorites", Aged(OneRecord))}

InitCare ==
    /\ now = StartTime
    /\ calls = <<StartupTimer>>
    /\ listeners = {}
    /\ last = EnvStep("start")
    /\ scope = [users |-> Users, doms |-> {"favorites"}, env |-> {"clock", "failures"},
                ops |-> {"status", "clearUserCache"},
                keys |-> {}, records |-> {}, words |-> {}, storage |-> "redis"]
    /\ cookie = "alice"
    /\ device = NoDevice
    /\ \E a \in CareBundles, b \in OtherBundles :
         localStorage = [u \in Users |-> IF u = "alice" THEN a ELSE b]
    /\ remote = [u \in Users |->
                   IF u = "alice"
                   THEN [playRecords |-> {<<Key1, "r1">>}, favorites |-> {<<Key2, "r2">>},
                         searchHistory |-> OneKeyword]
                   ELSE EmptyRemote]

NextCare ==
    \/ \E d \in Domains : GetAll(d)
    \/ \E i \in Slots : BlockingFetchDone(i)
    \/ \E i \in Slots : BackgroundFetchDone(i)
    \/ GetCacheStatus
    \/ ClearUserCache
    \/ \E i \in Slots : ClearExpiredCaches(i)
    \/ Tick

SpecCare == InitCare /\ [][NextCare]_vars

\* Reading favorites whose entry is expired, of an old version or valid,
\* beside play records that are valid or missing: reads, a write, the clear
\* and the pending sweep, the clock standing still.
InitRead ==
    /\ now = StartTime
    /\ calls = <<StartupTimer>>
    /\ listeners = {}
    /\ last = EnvStep("start")
    /\ scope = [users |-> {"alice"}, doms |-> {"favorites"}, env |-> {"failures"},
                ops |-> {"status", "clearUserCache", "isFavorited", "upsert"},
                keys |-> {<< <<"s">>, <<"1">> >>}, records |-> {"r1"}, words |-> {},
                storage |-> "redis"]
    /\ cookie = "alice"
    /\ device = NoDevice
    /\ \E fav \in {Stamped(OneRecord, StartTime - CACHE_EXPIRE_TIME, CACHE_VERSION),
                    Stamped(OneRecord, StartTime, OldVersion), Fresh(OneRecord)},
          pr \in {Fresh(OneRecord), Null} :
         localStorage = [u \in Users |->
                           IF u = "alice"
                           THEN JsonRecord([playRecords |-> pr, favorites |-> fav,
                                            searchHistory |-> Null])
                           ELSE NoRecord]
    /\ remote = [u \in Users |->
                   IF u = "alice" THEN RemoteOf("favorites", {<<Key2, "r2">>})
                   ELSE EmptyRemote]

NextRead ==
    \/ \E d \in Domains : GetAll(d)
    \/ \E s \in Sources, i \in Ids : IsFavorited(s, i)
    \/ \E i \in Slots : BlockingFetchDone(i)
    \/ \E i \in Slots : BackgroundFetchDone(i)
    \/ \E d \in KeyedDomains, s \in Sources, i \in Ids, v \in Records :
          SaveRecord(d, s, i, v)
    \/ \E i \in Slots : MutateDone(i)
    \/ \E i \in Slots : ReconcileDone(i)
    \/ GetCacheStatus
    \/ ClearUserCache
    \/ \E i \in Slots : ClearExpiredCaches(i)

SpecRead == InitRead /\ [][NextRead]_vars

\* Preloading: alice is signed in with one of her bundles, nothing is in
\* flight, the clock stands still, the server answers the refreshes in the
\* order they were started.
InitPreload ==
    /\ now = StartTime
    /\ calls = << >>
    /\ listeners = {}
    /\ last = EnvStep("start")
    /\ scope = [users |-> {"alice"}, doms |-> {}, env |-> {"failures", "inOrder"},
                ops |-> {"status", "preload", "refreshAll"},
                keys |-> {}, records |-> {}, words |-> {}, storage |-> "redis"]
    /\ cookie = "alice"
    /\ device = NoDevice
    /\ \E a \in CareBundles :
         localStorage = [u \in Users |-> IF u = "alice" THEN a ELSE NoRecord]
    /\ remote = [u \in Users |->
                   IF u = "alice"
                   THEN [playRecords |-> {<<Key1, "r1">>}, favorites |-> {<<Key2, "r2">>},
                         searchHistory |-> OneKeyword]
                   ELSE EmptyRemote]

NextPreload ==
    \/ GetCacheStatus
    \/ RefreshAllCache
    \/ PreloadUserData
    \/ \E i \in Slots, d \in Domains : RefreshFetchSettled(i, d)
    \/ \E i \in Slots : RefreshAllDone(i)

SpecPreload == InitPreload /\ [][NextPreload]_vars

----------------------------------------------------------------------------
(* Local-only mode: every exported operation on a device that holds some    *)
(* collections, nobody else writing.                                        *)

InitLocal ==
    /\ now = StartTime
    /\ calls = << >>
    /\ listeners = {}
    /\ last = EnvStep("start")
    /\ scope = [users |-> {"alice"}, doms |-> Domains, env |-> {"failures"},
                ops |-> {"upsert", "delete", "clearAll", "add", "removeOne",
                         "clearHistory", "isFavorited", "status", "clearUserCache",
                         "preload", "refreshAll"},
                keys |-> {<< <<"s">>, <<"1">> >>}, records |-> {"r1"},
                words |-> {<<"x">>}, storage |-> "localstorage"]
    /\ cookie \in {"alice", NoUser}
    /\ device \in {NoDevice,
                   [playRecords |-> Some(OneRecord), favorites |-> Some(OneRecord),
                    searchHistory |-> Some(OneKeyword)]}
    /\ localStorage = [u \in Users |-> NoRecord]
    /\ remote = [u \in Users |->
                   IF u = "alice" THEN RemoteOf("favorites", {<<Key2, "r2">>})
                   ELSE EmptyRemote]

NextLocal ==
    \/ \E d \in Domains : GetAll(d)
    \/ \E s \in Sources, i \in Ids : IsFavorited(s, i)
    \/ \E d \in KeyedDomains, s \in Sources, i \in Ids, v \in Records :
          SaveRecord(d, s, i, v)
    \/ \E d \in KeyedDomains, s \in Sources, i \in Ids : DeleteRecord(d, s, i)
    \/ \E d \in KeyedDomains : ClearAllRecords(d)
    \/ \E w \in Keywords : AddSearchHistory(w)
    \/ \E w \in Keywords : DeleteSearchHistory(w)
    \/ ClearSearchHistory
    \/ \E i \in Slots : LocalWriteDone(i)
    \/ GetCacheStatus
    \/ ClearUserCache
    \/ RefreshAllCache
    \/ PreloadUserData

SpecLocal == InitLocal /\ [][NextLocal]_vars

----------------------------------------------------------------------------
(* Both builds on devices that hold data of both: the collections of the    *)
(* local-only mode beside the cache records of two users, somebody signed   *)
(* in or nobody, the sweep pending, the clock standing still.               *)

\* the record alice may have: none; all entries fresh; a valid entry beside
\* one of an old version; no valid entry
ModeBundles ==
    {NoRecord,
     JsonRecord([playRecords |-> Fresh(OneRecord), favorites |-> Fresh(OneRecord),
                 searchHistory |-> Fresh(OneKeyword)]),
     JsonRecord([playRecords |-> Aged(OneRecord),
                 favorites |-> Stamped(OneRecord, StartTime, OldVersion),
                 searchHistory |-> Null]),
     JsonRecord([playRecords |-> Stamped(OneRecord, StartTime - CACHE_EXPIRE_TIME,
                                         CACHE_VERSION),
                 favorites |-> Stamped(OneRecord, StartTime, OldVersion),
                 searchHistory |-> Null])}

InitModes ==
    /\ now = StartTime
    /\ calls = <<StartupTimer>>
    /\ listeners = {}
    /\ last = EnvStep("start")
    /\ \E storage \in {"redis", "localstorage"} :
         scope = [users |-> Users, doms |-> Domains, env |-> {},
                  ops |-> {"status", "clearUserCache", "upsert"},
                  keys |-> {<< <<"s">>, <<"1">> >>}, records |-> {"r1"}, words |-> {},
                  storage |-> storage]
    /\ cookie \in {"alice", NoUser}
    /\ device \in {NoDevice,
                   [playRecords |-> Some(OneRecord), favorites |-> Some(OneRecord),
                    searchHistory |-> Some(OneKeyword)]}
    /\ \E a \in ModeBundles :
         localStorage = [u \in Users |->
                           IF u = "alice" THEN a
                           ELSE StoredAs("favorites",
                                         Stamped(OneRecord, StartTime - CACHE_EXPIRE_TIME,
                                                 CACHE_VERSION))]
    /\ remote = [u \in Users |->
                   IF u = "alice" THEN RemoteOf("favorites", {<<Key2, "r2">>})
                   ELSE EmptyRemote]

NextModes ==
    \/ \E d \in Domains : GetAll(d)
    \/ \E i \in Slots : BlockingFetchDone(i)
    \/ \E i \in Slots : BackgroundFetchDone(i)
    \/ \E d \in KeyedDomains, s \in Sources, i \in Ids, v \in Records :
          SaveRecord(d, s, i, v)
    \/ \E i \in Slots : MutateDone(i)
    \/ \E i \in Slots : ReconcileDone(i)
    \/ \E i \in Slots : LocalWriteDone(i)
    \/ GetCacheStatus
    \/ ClearUserCache
    \/ \E i \in Slots : ClearExpiredCaches(i)

SpecModes == InitModes /\ [][NextModes]_vars

----------------------------------------------------------------------------
(* Local-only mode, writes that do not wait for each other: two favorites,  *)
(* a device that holds one of them or nothing.                              *)

InitLocalRace ==
    /\ now = StartTime
    /\ calls = << >>
    /\ listeners = {}
    /\ last = EnvStep("start")
    /\ scope = [users |-> {"alice"}, doms |-> {"favorites"}, env |-> {},
                ops |-> {"upsert", "delete", "clearAll"},
                keys |-> {<< <<"s">>, <<"1">> >>, << <<"t">>, <<"2">> >>},
                records |-> {"r2"}, words |-> {},
                storage |-> "localstorage"]
    /\ cookie = "alice"
    /\ device \in {NoDevice, [NoDevice EXCEPT !.favorites = Some(OneRecord)]}
    /\ localStorage = [u \in Users |-> NoRecord]
    /\ remote = [u \in Users |-> EmptyRemote]

NextLocalRace ==
    \/ \E d \in KeyedDomains, s \in Sources, i \in Ids, v \in Records :
          SaveRecord(d, s, i, v)
    \/ \E d \in KeyedDomains, s \in Sources, i \in Ids : DeleteRecord(d, s, i)
    \/ \E d \in KeyedDomains : ClearAllRecords(d)
    \/ \E i \in Slots : LocalWriteDone(i)

SpecLocalRace == InitLocalRace /\ [][NextLocalRace]_vars

----------------------------------------------------------------------------
(* A read and a write of the same collection: the cached play records of   *)
(* alice are valid, the server holds the same or an older collection, every *)
(* request succeeds, the clock stands still.                                *)

InitRace ==
    /\ now = StartTime
    /\ calls = << >>
    /\ listeners = {}
    /\ last = EnvStep("start")
    /\ scope = [users |-> {"alice"}, doms |-> {"playRecords"}, env |-> {},
                ops |-> {"upsert"}, keys |-> {<< <<"s">>, <<"1">> >>},
                records |-> Records, words |-> {}, storage |-> "redis"]
    /\ cookie = "alice"
    /\ device = NoDevice
    /\ \E entry \in {Fresh(<< <<Key2, "r2">> >>), Fresh(<< >>)} :
         localStorage = [u \in Users |->
                           IF u = "alice" THEN StoredAs("playRecords", entry)
                           ELSE NoRecord]
    /\ \E coll \in {{}, {<<Key2, "r2">>}, {<<Key2, "r1">>}} :
         remote = [u \in Users |->
                     IF u = "alice" THEN RemoteOf("playRecords", coll) ELSE EmptyRemote]

NextRace ==
    \/ \E d \in Domains : GetAll(d)
    \/ \E i \in Slots : BackgroundFetchDone(i)
    \/ \E d \in KeyedDomains, s \in Sources, i \in Ids, v \in Records :
          SaveRecord(d, s, i, v)
    \/ \E i \in Slots : MutateDone(i)

SpecRace == InitRace /\ [][NextRace]_vars

----------------------------------------------------------------------------
(* Subscribers: components subscribe to the three event names and          *)
(* unsubscribe while alice saves favorites and refreshes her whole cache;   *)
(* the requests succeed, in the order they were sent.                       *)

\* the subscriptions a page makes: each call of subscribeToDataUpdates makes
\* a handler of its own
Subscriptions ==
    {[id |-> 1, eventType |-> "playRecordsUpdated"],
     [id |-> 2, eventType |-> "favoritesUpdated"],
     [id |-> 3, eventType |-> "searchHistoryUpdated"]}

\* subscribeToDataUpdates(eventType, callback): window.addEventListener
Subscribe(h) ==
    /\ "subscribe" \in scope.ops
    /\ h \notin listeners
    /\ listeners' = listeners \cup {h}
    /\ last' = Step("subscribed", [NoCall EXCEPT !.op = "subscribe"], << >>)
    /\ UNCHANGED <<cookie, now, localStorage, remote, calls, scope, device>>

\* the function subscribeToDataUpdates returned: window.removeEventListener
Unsubscribe(h) ==
    /\ h \in listeners
    /\ listeners' = listeners \ {h}
    /\ last' = Step("unsubscribed", [NoCall EXCEPT !.op = "unsubscribe"], << >>)
    /\ UNCHANGED <<cookie, now, localStorage, remote, calls, scope, device>>

InitBus ==
    /\ now = StartTime
    /\ calls = << >>
    /\ listeners = {}
    /\ last = EnvStep("start")
    /\ scope = [users |-> {"alice"}, doms |-> {"favorites"},
                env |-> {"inOrder"},
                ops |-> {"subscribe", "upsert", "refreshAll"},
                keys |-> {<< <<"s">>, <<"1">> >>}, records |-> {"r1"}, words |-> {},
                storage |-> "redis"]
    /\ cookie = "alice"
    /\ device = NoDevice
    /\ localStorage = [u \in Users |-> NoRecord]
    /\ remote = [u \in Users |->
                   IF u = "alice"
                   THEN [playRecords |-> {<<Key1, "r1">>}, favorites |-> {<<Key2, "r2">>},
                         searchHistory |-> OneKeyword]
                   ELSE EmptyRemote]

NextBus ==
    \/ \E h \in Subscriptions : Subscribe(h)
    \/ \E h \in Subscriptions : Unsubscribe(h)
    \/ \E d \in KeyedDomains, s \in Sources, i \in Ids, v \in Records :
          SaveRecord(d, s, i, v)
    \/ \E i \in Slots : MutateDone(i)
    \/ RefreshAllCache
    \/ \E i \in Slots, d \in Domains : RefreshFetchSettled(i, d)
    \/ \E i \in Slots : RefreshAllDone(i)

SpecBus == InitBus /\ [][NextBus]_vars

----------------------------------------------------------------------------
(* Properties *)

\* the entry of a domain in a user's stored bundle, or null
EntryOf(ls, user, dom) == IF user = NoUser THEN Null ELSE getUserCache(ls, user)[dom]

Has(effects, e) == \E i \in DOMAIN effects : effects[i].e = e

IndexOf(effects, e) == CHOOSE i \in DOMAIN effects : effects[i].e = e

ClearOps == {"clearAll", "clearHistory"}

\* C1: with a signed-in user every write sends its remote call only after it
\* has stored the new collection in the user's cache and dispatched the event
\* carrying that collection; for a clear the collection is empty.
C1_OptimisticBeforeRemote ==
    (last.kind = "write" /\ cookie # NoUser) =>
        /\ Has(last.effects, "mutate")
        /\ Has(last.effects, "cache")
        /\ Has(last.effects, "event")
        /\ IndexOf(last.effects, "cache") < IndexOf(last.effects, "mutate")
        /\ IndexOf(last.effects, "event") < IndexOf(last.effects, "mutate")
        /\ LET stored == last.effects[IndexOf(last.effects, "cache")]
               event == last.effects[IndexOf(last.effects, "event")]
               entry == EntryOf(localStorage, cookie, last.dom)
           IN  /\ stored.u = cookie
               /\ entry # Null
               /\ entry[1].data = stored.d
               /\ event.d = stored.d
               /\ last.op \in ClearOps => stored.d = << >>

C1_Witness ==
    /\ last.kind = "write" /\ cookie # NoUser /\ last.op = "clearHistory"
    /\ Len(calls) = 2 /\ calls[2].pc = "mutate"

\* C2 as stated: after upsert(key, value) of a signed-in user and until the
\* next step of the program, the domain's cache is valid and holds value at key.
C2_AsStated ==
    (last.kind = "write" /\ last.op = "upsert" /\ cookie # NoUser) =>
        LET cached == getCached(localStorage, cookie, now, last.dom) IN
        /\ cached # Null
        /\ ObjectHas(cached[1], last.key)
        /\ ObjectGet(cached[1], last.key) = last.value

\* C2, amended: after upsert(key, value) of a signed-in user and until the
\* next step of the program, the entry of the domain was stored at the time of
\* the upsert and holds value at key; while less than the TTL has passed since
\* then it is valid, and a getAll served from the cache returns that data.
C2_OptimisticVisibility ==
    [][(last'.kind = "write" /\ last'.op = "upsert" /\ cookie' # NoUser) =>
          LET entry == EntryOf(localStorage', cookie', last'.dom) IN
          /\ entry # Null
          /\ ObjectHas(entry[1].data, last'.key)
          /\ ObjectGet(entry[1].data, last'.key) = last'.value
          /\ last' # last => entry[1].timestamp = now
          /\ now' - entry[1].timestamp < CACHE_EXPIRE_TIME =>
                getCached(localStorage', cookie', now', last'.dom) = Some(entry[1].data)
      ]_vars

C2_Witness ==
    /\ last.kind = "write" /\ last.op = "upsert" /\ cookie # NoUser
    /\ LET entry == EntryOf(localStorage, cookie, last.dom) IN
       /\ now - entry[1].timestamp = TickStep
       /\ Len(entry[1].data) = 2
       /\ entry[1].data[1] = <<last.key, last.value>>

\* the effects of a kind in a step, in order
Only(effects, e) == SelectSeq(effects, LAMBDA x : x.e = e)

\* the calls waiting at pc whose continuation runs to its end in this step
Settling(pc) == {i \in DOMAIN calls : calls[i].pc = pc /\ calls' = Without(i)}

\* the calls waiting at pc
Waiting(cs, pc) == {i \in DOMAIN cs : cs[i].pc = pc}

\* C3: when the fetch of the reconciliation that follows a failed remote call
\* succeeds with snapshot S for a signed-in user, the entry of the domain is
\* replaced by a fresh entry holding S whatever it held before, the
\* reconciliation dispatches exactly one event and it carries S, and a getAll
\* that follows while the entry is less than the TTL old returns S.
C3_Reconciliation ==
    [][/\ \A i \in Settling("recon") :
            (Has(last'.effects, "ok") /\ cookie' # NoUser) =>
                LET S == last'.effects[IndexOf(last'.effects, "ok")].d IN
                /\ last'.kind = "reconciled"
                /\ EntryOf(localStorage', cookie', calls[i].dom)
                      = Some(createCacheData(S, now'))
                /\ Only(last'.effects, "cache") = <<Effect("cache", cookie', S)>>
                /\ Only(last'.effects, "event") = <<EventEffect(S)>>
                /\ getCached(localStorage', cookie', now', calls[i].dom) = Some(S)
       /\ (/\ last.kind = "reconciled" /\ Has(last.effects, "ok") /\ cookie # NoUser
           /\ Len(calls') = Len(calls) + 1
           /\ calls'[Len(calls')].op = "getAll" /\ last'.dom = last.dom
           /\ now - EntryOf(localStorage, cookie, last.dom)[1].timestamp
                 < CACHE_EXPIRE_TIME)
          => /\ last'.kind = "hit"
             /\ Only(last'.effects, "return")
                   = <<Effect("return", "", last.effects[IndexOf(last.effects, "ok")].d)>>
      ]_vars

\* a reconciliation has replaced the entry of the play records, later than
\* the start, by a snapshot that lacks the key the writes of the scope use
C3_Witness ==
    /\ last.kind = "reconciled" /\ last.dom = "playRecords" /\ cookie # NoUser
    /\ Has(last.effects, "ok")
    /\ LET S == last.effects[IndexOf(last.effects, "ok")].d
           entry == EntryOf(localStorage, cookie, "playRecords")
       IN  /\ ~ObjectHas(S, Key2)
           /\ entry = Some(createCacheData(S, now))
           /\ now > StartTime

\* C4: a write of play records or favorites rejects exactly when its remote
\* call failed: a write whose remote call succeeded returns, a write whose
\* remote call failed throws, and it throws in the step in which the fetch
\* of its reconciliation settles, after that response and after the effects
\* of the reconciliation; the call that fails was started by a write step
\* that had stored and dispatched the optimistic collection, and the step in
\* which the remote call fails only sends the reconciliation fetch.
C4_RejectsAfterReconciliation ==
    [][/\ Has(last'.effects, "throw") /\ last' # last =>
            /\ Settling("recon") # {}
            /\ last'.dom \in KeyedDomains
            /\ last'.effects[Len(last'.effects)].e = "throw"
            /\ Len(Only(last'.effects, "throw")) = 1
            /\ last'.effects[1].e \in {"ok", "fail"}
       /\ \A i \in Settling("recon") :
            calls[i].dom \in KeyedDomains => Has(last'.effects, "throw")
       /\ \A i \in Settling("mutate") :
            calls[i].dom \in KeyedDomains =>
                /\ last'.effects = <<Effect("ok", calls[i].reqUser, Null),
                                     Effect("return", "", Null)>>
       /\ Cardinality(Waiting(calls', "recon")) > Cardinality(Waiting(calls, "recon")) =>
            /\ Cardinality(Waiting(calls', "mutate")) < Cardinality(Waiting(calls, "mutate"))
            /\ last'.effects[1].e = "fail"
            /\ ~Has(last'.effects, "throw") /\ ~Has(last'.effects, "return")
            /\ Has(last'.effects, "fetch")
       /\ Cardinality(Waiting(calls', "mutate")) > Cardinality(Waiting(calls, "mutate")) =>
            /\ last'.kind = "write"
            /\ ~Has(last'.effects, "throw") /\ ~Has(last'.effects, "return")
            /\ Has(last'.effects, "event")
            /\ cookie # NoUser => Has(last'.effects, "cache")
      ]_vars

\* a delete of a play record has thrown after a reconciliation that succeeded
C4_Witness ==
    /\ last.kind = "reconciled" /\ last.dom = "playRecords"
    /\ Len(last.effects) = 4
    /\ last.effects[1].e = "ok" /\ last.effects[4].e = "throw"

\* C5: a write of the search history never throws: when its remote call
\* fails the reconciliation fetch is sent, and when that fetch has settled,
\* with a snapshot or with a failure, the write returns.
C5_SearchHistoryNeverRejects ==
    last.dom = "searchHistory" =>
        /\ ~Has(last.effects, "throw")
        /\ last.kind = "failed" =>
              /\ Has(last.effects, "fetch")
              /\ \E i \in DOMAIN calls :
                    calls[i].pc = "recon" /\ calls[i].dom = "searchHistory"
        /\ last.kind = "reconciled" =>
              /\ last.effects[Len(last.effects)] = Effect("return", "", Null)
              /\ Len(Only(last.effects, "return")) = 1

\* a write of the search history has returned after its remote call and the
\* fetch of its reconciliation both failed
C5_Witness ==
    /\ last.kind = "reconciled" /\ last.dom = "searchHistory"
    /\ last.effects = <<Effect("fail", cookie, Null), Effect("return", "", Null)>>

\* C6: when the remote call of a write fails and the fetch of its
\* reconciliation fails too, neither step changes the stored bundles, so the
\* entry stays as the optimistic write left it; the reconciliation dispatches
\* no event, and the write settles as it does after any failed remote call:
\* a keyed write throws, a search-history write returns.
C6_FailedReconciliation ==
    [][/\ \A i \in Settling("recon") :
            Has(last'.effects, "fail") =>
                /\ localStorage' = localStorage
                /\ last'.effects = <<Effect("fail", calls[i].reqUser, Null),
                                     Effect(IF calls[i].dom \in KeyedDomains
                                            THEN "throw" ELSE "return", "", Null)>>
       /\ Cardinality(Waiting(calls', "recon")) > Cardinality(Waiting(calls, "recon")) =>
            /\ localStorage' = localStorage
            /\ ~Has(last'.effects, "event") /\ ~Has(last'.effects, "cache")
       /\ (/\ last.kind = "write" /\ cookie # NoUser
           /\ Cardinality(Waiting(calls', "recon")) > Cardinality(Waiting(calls, "recon")))
          => EntryOf(localStorage', cookie', last.dom)[1].data
                = last.effects[IndexOf(last.effects, "cache")].d
      ]_vars

\* an upsert has thrown after both requests failed, and the entry still holds
\* the value it wrote, which the remote store does not hold
C6_Witness ==
    /\ last.kind = "reconciled" /\ last.dom = "playRecords"
    /\ last.effects = <<Effect("fail", cookie, Null), Effect("throw", "", Null)>>
    /\ LET entry == EntryOf(localStorage, cookie, "playRecords") IN
       /\ entry # Null
       /\ ObjectHas(entry[1].data, Key2)
       /\ <<Key2, "r2">> \notin remote[cookie].playRecords

\* C7: data fetched from the remote store is stored only in the bundle of the
\* user whose request fetched it, and an optimistic write only in the bundle
\* of the user whose request it sends: no bundle receives data obtained as
\* another user, whatever the logins and logouts between request and response.
C7_NoCrossUserLeakage ==
    \A i \in DOMAIN last.effects :
        last.effects[i].e = "cache" =>
            /\ (i > 1 /\ last.effects[i - 1].e = "ok") =>
                  last.effects[i].u = last.effects[i - 1].u
            /\ last.kind = "write" =>
                  last.effects[i].u = last.effects[IndexOf(last.effects, "mutate")].u

\* C8: a getAll that finds a valid entry sends the background fetch and
\* returns the data of that entry in the same step, while the fetch is
\* pending; and while a background fetch is pending, every other call in
\* flight can settle and, within the bound on calls in flight, every read
\* and write of the scope can start.
C8_ReadsDoNotWait ==
    /\ last.kind = "hit" =>
          /\ Len(last.effects) = 2
          /\ last.effects[1] = Effect("fetch", cookie, Null)
          /\ last.effects[2].e = "return"
          /\ EntryOf(localStorage, cookie, last.dom) # Null
          /\ last.effects[2].d = EntryOf(localStorage, cookie, last.dom)[1].data
          /\ calls # << >>
          /\ calls[Len(calls)].pc = "bg"
          /\ calls[Len(calls)].snap = last.effects[2].d
    /\ Waiting(calls, "bg") # {} =>
          /\ \A j \in Waiting(calls, "mutate") : ENABLED MutateDone(j)
          /\ \A j \in Waiting(calls, "fetch") : ENABLED BlockingFetchDone(j)
          /\ \A j \in Waiting(calls, "recon") : ENABLED ReconcileDone(j)
          /\ CanCall =>
                /\ \A d \in scope.doms : ENABLED GetAll(d)
                /\ \A d \in scope.doms \cap KeyedDomains, k \in scope.keys :
                      /\ "delete" \in scope.ops => ENABLED DeleteRecord(d, k[1], k[2])
                      /\ \A v \in scope.records :
                            "upsert" \in scope.ops => ENABLED SaveRecord(d, k[1], k[2], v)
                /\ \A w \in scope.words : ENABLED AddSearchHistory(w)

\* a second read has returned from the cache while the background fetch of
\* an earlier read is still pending
C8_Witness ==
    /\ last.kind = "hit"
    /\ Len(calls) = 2
    /\ calls[1].pc = "bg" /\ calls[2].pc = "bg"
    /\ last.effects[2].d = calls[2].snap

\* C9: when the background fetch of a cache-hit read succeeds, for a
\* signed-in user, with data F whose serialization differs from that of the
\* data D the read returned, the entry of the domain is replaced by a fresh
\* entry holding F and the refresh dispatches exactly one event, carrying F.
C9_BackgroundRefresh ==
    [][\A i \in Settling("bg") :
          (/\ Has(last'.effects, "ok")
           /\ last'.effects[IndexOf(last'.effects, "ok")].d # calls[i].snap
           /\ cookie' # NoUser) =>
              LET F == last'.effects[IndexOf(last'.effects, "ok")].d IN
              /\ last'.kind = "refreshed"
              /\ EntryOf(localStorage', cookie', calls[i].dom)
                    = Some(createCacheData(F, now'))
              /\ last'.effects = <<Effect("ok", calls[i].reqUser, F),
                                   Effect("cache", cookie', F), EventEffect(F)>>
      ]_vars

\* a refresh has replaced the play records by a fetched map of two records
C9_Witness ==
    /\ last.kind = "refreshed" /\ last.dom = "playRecords" /\ cookie # NoUser
    /\ Len(last.effects) = 3
    /\ last.effects[3].e = "event"
    /\ Len(last.effects[3].d) = 2
    /\ EntryOf(localStorage, cookie, "playRecords")
          = Some(createCacheData(last.effects[3].d, now))

\* equality of two collections as data: the same keys with the same values
\* for a map, the same keywords in the same order for a list
SameData(dom, a, b) ==
    IF dom \in KeyedDomains
    THEN {a[i] : i \in DOMAIN a} = {b[i] : i \in DOMAIN b}
    ELSE a = b

C11_BackgroundFailure ==
    [][/\ \A i \in Settling("bg") :
            Has(last'.effects, "fail") =>
                /\ localStorage' = localStorage
                /\ last'.effects = <<Effect("fail", calls[i].reqUser, Null)>>
       /\ Cardinality(Waiting(calls', "bg")) > Cardinality(Waiting(calls, "bg")) =>
            /\ ~Has(last'.effects, "throw")
            /\ Only(last'.effects, "return")
                  = <<Effect("return", "", calls'[Len(calls')].snap)>>
      ]_vars

\* the background fetch of a read has failed and the entry the read was
\* served from is still stored
C11_Witness ==
    /\ last.kind = "refreshed" /\ cookie # NoUser
    /\ last.effects = <<Effect("fail", cookie, Null)>>
    /\ EntryOf(localStorage, cookie, last.dom) # Null
    /\ getCached(localStorage, cookie, now, last.dom) # Null

\* C12: with a signed-in user a getAll that finds no valid entry sends the
\* fetch and returns nothing before the fetch has settled; when the fetch
\* succeeds with R the entry of the domain becomes a fresh, valid entry
\* holding R, the read returns R and dispatches no event.
C12_BlockingFetch ==
    [][/\ \A i \in Settling("fetch") :
            (Has(last'.effects, "ok") /\ cookie' # NoUser) =>
                LET R == last'.effects[IndexOf(last'.effects, "ok")].d IN
                /\ last'.kind = "fetched"
                /\ EntryOf(localStorage', cookie', calls[i].dom)
                      = Some(createCacheData(R, now'))
                /\ getCached(localStorage', cookie', now', calls[i].dom) = Some(R)
                /\ last'.effects = <<Effect("ok", calls[i].reqUser, R),
                                     Effect("cache", cookie', R),
                                     Effect("return", "", R)>>
       /\ Cardinality(Waiting(calls', "fetch")) > Cardinality(Waiting(calls, "fetch")) =>
            /\ last'.kind = "miss"
            /\ last'.effects = <<Effect("fetch", cookie, Null)>>
            /\ getCached(localStorage, cookie, now, last'.dom) = Null
            /\ localStorage' = localStorage
      ]_vars

\* a read that found no valid entry has stored, later than the start, the
\* two records it fetched
C12_Witness ==
    /\ last.kind = "fetched" /\ last.dom = "playRecords" /\ cookie # NoUser
    /\ Len(last.effects) = 3
    /\ Len(last.effects[3].d) = 2
    /\ EntryOf(localStorage, cookie, "playRecords")
          = Some(createCacheData(last.effects[3].d, now))
    /\ now >= StartTime + TickStep

\* C13: when the fetch of a getAll that found no valid entry fails, the read
\* returns the empty collection, throws nothing and leaves the stored
\* bundles as they are.
C13_BlockingFailure ==
    [][\A i \in Settling("fetch") :
          Has(last'.effects, "fail") =>
              /\ localStorage' = localStorage
              /\ last'.effects = <<Effect("fail", calls[i].reqUser, Null),
                                   Effect("return", "", << >>)>>
      ]_vars

\* a read has returned the empty collection after its fetch failed, and the
\* expired entry it had found is still stored
C13_Witness ==
    /\ last.kind = "fetched" /\ cookie # NoUser
    /\ last.effects = <<Effect("fail", cookie, Null), Effect("return", "", << >>)>>
    /\ EntryOf(localStorage, cookie, last.dom) # Null
    /\ getCached(localStorage, cookie, now, last.dom) = Null

\* C15: an upsert, delete, add or removeOne of a signed-in user on a domain
\* whose entry exists, valid or not, stores the data of that entry changed
\* by the write alone.
C15_StaleBase ==
    [][(/\ Cardinality(Waiting(calls', "mutate")) > Cardinality(Waiting(calls, "mutate"))
        /\ cookie # NoUser
        /\ last'.op \in {"upsert", "delete", "add", "removeOne"}
        /\ EntryOf(localStorage, cookie, last'.dom) # Null) =>
           EntryOf(localStorage', cookie, last'.dom)[1].data
              = optimisticData(last'.op,
                               Some(EntryOf(localStorage, cookie, last'.dom)[1].data),
                               last'.key, last'.value)
      ]_vars

EmptySided(key) ==
    LET parts == split(key, "+") IN
    Len(parts) < 2 \/ parts[1] = << >> \/ parts[2] = << >>

\* C16: a save or delete of a record whose key has an empty source or an
\* empty id throws at once, without a cache write, an event or a request,
\* and no cached map of play records or favorites holds such a key.
C16_EmptySidedKeyRejected ==
    /\ (last.op \in {"upsert", "delete"} /\ EmptySided(last.key)) =>
          last.effects = <<Effect("throw", "", Null)>>
    /\ \A u \in Users, d \in KeyedDomains :
          localStorage[u].raw = "json" /\ localStorage[u].cache[d] # Null =>
             \A k \in ObjectKeys(localStorage[u].cache[d][1].data) : ~EmptySided(k)

\* a keyword made of white space only, or of nothing
Blank(keyword) == \A i \in DOMAIN keyword : keyword[i] \in Whitespace

\* C17: an add or a removal of one keyword that is blank does nothing in
\* either mode: it returns, the stored bundles, the device list and the
\* server are left as they are, no event is dispatched, no request is sent
\* and no call is left waiting.
C17_BlankKeywordIgnored ==
    [][/\ (last' # last /\ last'.op \in {"add", "removeOne"} /\ Blank(last'.key)) =>
            /\ last'.kind = "ignored"
            /\ last'.effects = <<Effect("return", "", Null)>>
            /\ UNCHANGED <<localStorage, device, remote, calls>>
       /\ \A i \in DOMAIN calls' :
            calls'[i].op \in {"add", "removeOne"} => ~Blank(calls'[i].key)
      ]_vars

\* local-only mode: a removal of the keyword " " has returned, the device
\* still holds its full history
C17_Witness ==
    /\ STORAGE_TYPE = "localstorage"
    /\ last.kind = "ignored" /\ last.op = "removeOne" /\ last.key = <<" ">>
    /\ device.searchHistory = Some(LongHistory)

\* C18: the search history in the stored bundle of every user, and the one
\* of the device in local-only mode, never has more than
\* SEARCH_HISTORY_LIMIT keywords.
C18_HistoryWithinLimit ==
    /\ \A u \in Users :
          localStorage[u].raw = "json" /\ localStorage[u].cache.searchHistory # Null =>
             Len(localStorage[u].cache.searchHistory[1].data) <= SEARCH_HISTORY_LIMIT
    /\ Len(localRead(device, "searchHistory")) <= SEARCH_HISTORY_LIMIT

Count(list, k) == Len(SelectSeq(list, LAMBDA x : x = k))

\* what an add of k makes of the history H it read: k is first and occurs
\* once, the other keywords follow in the order they had in H, and adding k
\* once more changes nothing
DedupLaw(H, k, N) ==
    /\ N # << >> /\ N[1] = k
    /\ Count(N, k) = 1
    /\ Tail(N) = SubSeq(SelectSeq(H, LAMBDA x : x # k), 1, Len(N) - 1)
    /\ LET again == addKeyword(N, k) IN
       /\ Len(again) = Len(N)
       /\ again[1] = k /\ Count(again, k) = 1
       /\ Tail(again) = Tail(N)

\* C19: every add of a keyword k that is not blank stores a list that obeys
\* the dedup law with respect to the history the add read: the valid cached
\* list (or the empty list) in database mode, the device list in local-only
\* mode.
C19_DedupLaw ==
    [][/\ (/\ Cardinality(Waiting(calls', "mutate")) > Cardinality(Waiting(calls, "mutate"))
           /\ last'.op = "add" /\ cookie # NoUser) =>
             DedupLaw(shownHistory, last'.key,
                      getCached(localStorage', cookie, now, "searchHistory")[1])
       /\ \A i \in Settling("local") :
             calls[i].op = "add" =>
                DedupLaw(calls[i].snap, calls[i].key, localRead(device', "searchHistory"))
      ]_vars

\* local-only mode: an add has stored the keyword "t" in front of a full
\* history that already had it in front, as the add that read the list
\* before and still waits shows
C19_Witness ==
    /\ STORAGE_TYPE = "localstorage"
    /\ last.kind = "stored" /\ last.op = "add" /\ last.key = <<"t">>
    /\ Len(calls) = 1 /\ calls[1].op = "add" /\ calls[1].key = <<"t">>
    /\ calls[1].snap = localRead(device, "searchHistory")
    /\ Len(calls[1].snap) = SEARCH_HISTORY_LIMIT
    /\ calls[1].snap[1] = <<"t">>

\* C20: when distinct keywords are added one after the other to an empty
\* history, the list shown after the n-th add holds the last
\* SEARCH_HISTORY_LIMIT of them (all n while n is smaller), the newest
\* first, in both modes.
C20_CapLaw ==
    shownHistory # << >> =>
       LET n == LetterIndex(shownHistory[1])
           m == IF n > SEARCH_HISTORY_LIMIT THEN SEARCH_HISTORY_LIMIT ELSE n
       IN  shownHistory = [i \in 1..m |-> <<Letter[n + 1 - i]>>]

\* database mode: all MaxAdds keywords have been added, the cached list has
\* SEARCH_HISTORY_LIMIT entries, from the last keyword added down
C20_Witness ==
    /\ STORAGE_TYPE # "localstorage"
    /\ MaxAdds > SEARCH_HISTORY_LIMIT
    /\ Len(shownHistory) = SEARCH_HISTORY_LIMIT
    /\ shownHistory[1] = <<Letter[MaxAdds]>>
    /\ shownHistory[SEARCH_HISTORY_LIMIT] = <<Letter[MaxAdds + 1 - SEARCH_HISTORY_LIMIT]>>

\* the entry of a domain in a stored record, if the record parses and has one
StoredEntry(rec, dom) == IF rec.raw = "json" THEN rec.cache[dom] ELSE Null

\* the law of validity, stated on the age of an entry
ValidAt(entry, t) ==
    LET age == t - entry.timestamp IN
    IF entry.version # CACHE_VERSION THEN FALSE
    ELSE IF age = CACHE_EXPIRE_TIME THEN FALSE
    ELSE age < CACHE_EXPIRE_TIME

\* the flag of a domain in the answer of getCacheStatus
StatusFlag(status, dom) ==
    CASE dom = "playRecords" -> status.hasPlayRecords
      [] dom = "favorites" -> status.hasFavorites
      [] dom = "searchHistory" -> status.hasSearchHistory

\* a step in which getCacheStatus answered
StatusStep ==
    /\ last'.kind = "status"
    /\ now' = now /\ localStorage' = localStorage /\ calls' = calls

\* C21: an entry is valid exactly when its version is the current schema
\* version and its age, now - timestamp, is smaller than the TTL: an entry
\* whose age is exactly the TTL is invalid, an entry of another version is
\* invalid whatever its age.  Observed in what getCacheStatus answers.
C21_ValidityLaw ==
    [][StatusStep /\ STORAGE_TYPE # "localstorage" =>
         \A d \in Domains :
            LET entry == StoredEntry(localStorage[cookie], d) IN
            StatusFlag(last'.effects[1].d, d) = (entry # Null /\ ValidAt(entry[1], now))
      ]_vars

\* getCacheStatus has just reported no play records while the stored entry
\* has the current version and is exactly one TTL old, and no favorites
\* while the stored entry, of an old version, was written this instant
C21_Witness ==
    /\ last.kind = "status"
    /\ LET pr == StoredEntry(localStorage[cookie], "playRecords")
           fav == StoredEntry(localStorage[cookie], "favorites")
       IN  /\ pr # Null /\ pr[1].version = CACHE_VERSION
           /\ now - pr[1].timestamp = CACHE_EXPIRE_TIME
           /\ ~last.effects[1].d.hasPlayRecords
           /\ fav # Null /\ fav[1].version # CACHE_VERSION /\ fav[1].timestamp = now
           /\ ~last.effects[1].d.hasFavorites

\* C23: the sweep removes the stored record of a user exactly when no entry
\* of its bundle is valid at the time of the sweep, a record that does not
\* parse counting as one without valid entry; a record with at least one
\* valid entry is left as it is, its stale entries included.
C23_SweepLaw ==
    [][Settling("timer") # {} =>
         \A u \in Users :
            LET rec == localStorage[u]
                anyValid == \E d \in Domains :
                               /\ StoredEntry(rec, d) # Null
                               /\ ValidAt(StoredEntry(rec, d)[1], now)
            IN  IF rec.raw # "none" /\ ~anyValid
                THEN localStorage'[u] = NoRecord
                ELSE localStorage'[u] = rec
      ]_vars

\* the sweep has just removed the record of bob, whose only entry had
\* reached the TTL, and has left the record of alice, with a valid entry of
\* play records beside favorites already stale, as it was
C23_Witness ==
    /\ last.kind = "swept"
    /\ last.effects[1].d = {"bob"}
    /\ localStorage["bob"] = NoRecord
    /\ LET pr == StoredEntry(localStorage["alice"], "playRecords")
           fav == StoredEntry(localStorage["alice"], "favorites")
       IN  /\ pr # Null /\ ValidAt(pr[1], now)
           /\ fav # Null /\ fav[1].version = CACHE_VERSION
           /\ now - fav[1].timestamp > CACHE_EXPIRE_TIME

\* C24: in database mode, clearUserCache with a user signed in removes that
\* user's whole bundle, so that getCacheStatus right after reports no valid
\* entry for any domain, and leaves the record of every other user as it is.
C24_ClearLaw ==
    [][/\ last'.kind = "cleared" /\ now' = now /\ calls' = calls
       /\ STORAGE_TYPE # "localstorage" /\ cookie # NoUser
       =>
       /\ localStorage'[cookie] = NoRecord
       /\ \A d \in Domains : ~StatusFlag(cacheStatus(localStorage', cookie', now'), d)
       /\ \A u \in Users \ {cookie} : localStorage'[u] = localStorage[u]
      ]_vars

\* alice has just cleared her cache, bob's record with valid favorites is
\* still stored
C24_Witness ==
    /\ last.kind = "cleared"
    /\ last.effects[1] = Effect("remove", "alice", Null)
    /\ cookie = "alice"
    /\ localStorage["alice"] = NoRecord
    /\ LET fav == StoredEntry(localStorage["bob"], "favorites")
       IN  fav # Null /\ ValidAt(fav[1], now)

\* the stored entry of every domain of the user is valid
AllValid(ls, user, t) ==
    \A d \in Domains :
       /\ StoredEntry(ls[user], d) # Null
       /\ ValidAt(StoredEntry(ls[user], d)[1], t)

\* C25: in database mode, preloadUserData with valid entries for all three
\* domains sends no request, writes no cache and publishes no event;
\* otherwise it starts a refresh that fetches all three domains, those with
\* a valid entry included, and returns without waiting for it.
C25_PreloadLaw ==
    [][/\ last'.kind = "preload" /\ (last' # last \/ Len(calls') > Len(calls))
       /\ STORAGE_TYPE # "localstorage"
       =>
         /\ localStorage' = localStorage
         /\ IF AllValid(localStorage, cookie, now)
            THEN /\ calls' = calls
                 /\ last'.effects = <<Effect("return", "", Null)>>
            ELSE /\ Len(calls') = Len(calls) + 1
                 /\ calls'[Len(calls')].pc = "refresh"
                 /\ calls'[Len(calls')].snap = NoneSettled
                 /\ \A d \in Domains :
                       Count(last'.effects, Effect("fetch", cookie, Some(d))) = 1
                 /\ Len(last'.effects) = 4
                 /\ last'.effects[4] = Effect("return", "", Null)
      ]_vars

\* preloadUserData has just returned with its refresh in flight, nothing
\* settled, while play records and search history have a valid entry and
\* favorites a stale one
C25_Witness ==
    /\ last.kind = "preload"
    /\ Len(last.effects) = 4
    /\ Len(calls) = 1 /\ calls[1].pc = "refresh" /\ calls[1].snap = NoneSettled
    /\ LET pr == StoredEntry(localStorage[cookie], "playRecords")
           fav == StoredEntry(localStorage[cookie], "favorites")
       IN  /\ pr # Null /\ ValidAt(pr[1], now)
           /\ fav # Null /\ ~ValidAt(fav[1], now)

\* the kinds of the steps in which a read starts or answers from the device
ReadKinds == {"hit", "miss", "status", "local"}

\* C30: a read never deletes an invalid entry: the steps of getAll,
\* isFavorited and getCacheStatus up to their return or their await leave the
\* store as it is; an entry that is expired or of an old version is replaced
\* only by a fetch that succeeded or by a write, and removed only by the
\* sweep or the clear.
C30_ReadsKeepInvalidEntries ==
    [][/\ last'.kind \in ReadKinds => localStorage' = localStorage
       /\ \A u \in Users, d \in Domains :
             LET old == StoredEntry(localStorage[u], d)
                 new == StoredEntry(localStorage'[u], d)
             IN  old # Null /\ ~ValidAt(old[1], now) /\ new # old =>
                    IF new = Null
                    THEN last'.kind \in {"swept", "cleared"}
                    ELSE \/ last'.kind = "write"
                         \/ /\ last'.kind \in {"fetched", "refreshed", "reconciled"}
                            /\ last'.effects[1].e = "ok"
      ]_vars

\* isFavorited has just missed on favorites of an old version and awaits its
\* fetch; the entry is still stored
C30_Witness ==
    /\ last.kind = "miss" /\ last.op = "isFavorited"
    /\ \E i \in DOMAIN calls : calls[i].op = "isFavorited" /\ calls[i].pc = "fetch"
    /\ LET fav == StoredEntry(localStorage[cookie], "favorites")
       IN  fav # Null /\ fav[1].version = OldVersion

\* the effects in which a request is sent to the server or answered by it
RemoteEffects == {"fetch", "mutate", "ok", "fail"}

\* C22: local-only isolation: in local-only mode no fetch-all and no mutate
\* request is ever sent, no call waits for the server, and every event is
\* published by a local write; reads, getCacheStatus, preloadUserData,
\* refreshAllCache and clearUserCache publish none.
C22_LocalOnlyIsolation ==
    scope.storage = "localstorage" =>
       /\ \A i \in DOMAIN calls : calls[i].pc = "local"
       /\ \A i \in DOMAIN last.effects : last.effects[i].e \notin RemoteEffects
       /\ Has(last.effects, "event") =>
             /\ last.kind = "stored"
             /\ last.op \in {"upsert", "delete", "clearAll", "add", "removeOne",
                             "clearHistory"}
       /\ \A u \in Users : localStorage[u] = NoRecord

\* local-only mode: a save has stored its record on the device and published
\* its event, another write has read the collection and has yet to store
C22_Witness ==
    /\ scope.storage = "localstorage"
    /\ last.kind = "stored" /\ last.op = "upsert"
    /\ Has(last.effects, "event")
    /\ ObjectHas(localRead(device, last.dom), Key1)
    /\ Len(calls) = 1 /\ calls[1].pc = "local"

\* the call is a getAll that runs alone: no other call is in flight, and on
\* the cache-hit path the entry still holds the data the read returned
ReadsAlone(i) ==
    /\ calls[i].op = "getAll" /\ Len(calls) = 1
    /\ calls[i].reqUser # NoUser
    /\ calls[i].pc = "bg" =>
          LET entry == StoredEntry(localStorage[calls[i].reqUser], calls[i].dom)
          IN  entry # Null /\ entry[1].data = calls[i].snap

\* C26: eventual reconciliation: when the fetch of a getAll that runs alone
\* succeeds, the entry of the domain in the bundle of the user who read
\* holds, after the continuation, the data of the remote collection.
C26_EventualReconciliation ==
    [][\A i \in Settling("fetch") \cup Settling("bg") :
          ReadsAlone(i) /\ last'.effects[1].e = "ok"
          => LET entry == StoredEntry(localStorage'[calls[i].reqUser], calls[i].dom)
             IN  /\ entry # Null
                 /\ \E f \in fetchAllResponses(remote, calls[i].reqUser, calls[i].dom) :
                       SameData(calls[i].dom, entry[1].data, f)
      ]_vars

\* C27: the accepted race: a cache-hit getAll has sent its background fetch,
\* a save started after it has put its record in the entry, and the fetch
\* answers with a collection that differs from the data the read returned
\* and lacks the record: the refresh replaces the entry by that collection,
\* the saved record is gone from the cache, and the answer to the save's
\* remote call, when it succeeds, stores the record on the server and leaves
\* the cache as it is.
C27_RefreshOverwritesWrite ==
    [][/\ \A i \in Settling("bg"), j \in Waiting(calls, "mutate") :
            (/\ i < j /\ calls[j].op = "upsert" /\ calls[j].dom = calls[i].dom
             /\ calls[i].reqUser = cookie /\ calls[j].reqUser = cookie
             /\ cookie # NoUser
             /\ ObjectHas(EntryOf(localStorage, cookie, calls[i].dom)[1].data, calls[j].key)
             /\ last'.effects[1].e = "ok"
             /\ JsonDiffers(calls[i].snap, last'.effects[1].d)
             /\ ~ObjectHas(last'.effects[1].d, calls[j].key))
            => /\ EntryOf(localStorage', cookie, calls[i].dom)[1].data = last'.effects[1].d
               /\ ~ObjectHas(EntryOf(localStorage', cookie, calls[i].dom)[1].data,
                             calls[j].key)
       /\ \A j \in Settling("mutate") :
            last'.kind = "written" =>
               /\ localStorage' = localStorage
               /\ calls[j].op = "upsert" =>
                     <<calls[j].key, calls[j].value>> \in remote'[calls[j].reqUser][calls[j].dom]
      ]_vars

\* the remote call of a save has just succeeded and the server holds the
\* record, nothing is in flight, and the cached entry, valid, does not hold
\* the record: a refresh has replaced it in between
C27_Witness ==
    /\ last.kind = "written" /\ last.op = "upsert" /\ last.key = Key1
    /\ calls = << >>
    /\ <<Key1, last.value>> \in remote[cookie][last.dom]
    /\ LET entry == StoredEntry(localStorage[cookie], last.dom)
       IN  /\ entry # Null /\ ValidAt(entry[1], now)
           /\ ~ObjectHas(entry[1].data, Key1)

\* the step leaves every entry but that of the pair (user, dom) as it is
OtherPairsKept(user, dom) ==
    \A u \in Users, d \in Domains :
       <<u, d>> # <<user, dom>> =>
          StoredEntry(localStorage'[u], d) = StoredEntry(localStorage[u], d)

\* C28: independent (user, domain) pairs never interfere: a read or a write
\* of one domain started by a user, and the continuation of a fetch, of a
\* background refresh, of a remote call or of a reconciliation of a call of
\* that user on that domain, leave the entries of the user's other domains
\* and every entry of every other user as they are.
C28_PairsDoNotInterfere ==
    [][/\ \A pc \in {"fetch", "bg", "mutate", "recon"} :
            \A i \in Settling(pc) : OtherPairsKept(calls[i].reqUser, calls[i].dom)
       /\ (Len(calls') > Len(calls) /\ last'.kind \in {"hit", "miss", "write"}) =>
             OtherPairsKept(cookie, last'.dom)
      ]_vars

\* the event name of each domain
NameOf == [playRecords |-> "playRecordsUpdated", favorites |-> "favoritesUpdated",
           searchHistory |-> "searchHistoryUpdated"]

\* the details of the events a step published under a name, in order
DetailsNamed(step, name) ==
    LET named == SelectSeq(step.effects,
                           LAMBDA x : /\ x.e = "event"
                                      /\ name = (IF x.u # "" THEN x.u ELSE NameOf[step.dom]))
    IN  [i \in DOMAIN named |-> named[i].d]

\* C29: event delivery has no replay and respects the lifetime of a
\* subscription: in every step the handlers called are those subscribed when
\* the step runs, each with exactly the events of its own name the step
\* publishes, in the order of publication; subscribing and unsubscribing
\* deliver nothing, so a handler never hears an event published before it
\* subscribed or after it unsubscribed; and the data fetched for one domain
\* is published under the name of that domain only.
C29_EventDelivery ==
    [][last' # last =>
         /\ DOMAIN last'.heard = listeners
         /\ \A h \in listeners : last'.heard[h] = DetailsNamed(last', h.eventType)
         /\ listeners' # listeners =>
               \A h \in DOMAIN last'.heard : last'.heard[h] = << >>
         /\ \A i \in Settling("refresh"), d \in Domains :
               calls[i].snap[d][1].ok =>
                  DetailsNamed(last', NameOf[d]) = <<calls[i].snap[d][1].data>>
         /\ last'.kind = "write" /\ cookie # NoUser =>
               \A d \in Domains \ {last'.dom} : DetailsNamed(last', NameOf[d]) = << >>
      ]_vars

\* a refresh of the whole cache has just published its three events while
\* the handlers of play records and favorites were subscribed and that of
\* the search history was not: each of the two heard the one event of its
\* name, the third heard nothing
C29_Witness ==
    /\ last.kind = "refreshed" /\ last.op = "refreshAll"
    /\ Len(SelectSeq(last.effects, LAMBDA x : x.e = "event")) = 3
    /\ listeners = {[id |-> 1, eventType |-> "playRecordsUpdated"],
                    [id |-> 2, eventType |-> "favoritesUpdated"]}
    /\ DOMAIN last.heard = listeners
    /\ last.heard[[id |-> 1, eventType |-> "playRecordsUpdated"]] = << << <<Key1, "r1">> >> >>
    /\ last.heard[[id |-> 2, eventType |-> "favoritesUpdated"]] = << << <<Key2, "r2">> >> >>

\* C39: the full refresh treats the three domains independently: once the
\* three fetches have settled, each domain whose fetch succeeded has a fresh
\* entry with the fetched data in the bundle of the current user and one
\* event of its name carrying that data; each domain whose fetch failed keeps
\* its entry and has no event; and whatever the combination of failures the
\* refresh throws nothing and, called as refreshAllCache, returns.
C39_RefreshPerDomain ==
    [][\A i \in Settling("refresh") :
          /\ \A d \in Domains :
                LET r == calls[i].snap[d][1] IN
                IF r.ok
                THEN /\ StoredEntry(localStorage'[cookie], d)
                           = Stamped(r.data, now, CACHE_VERSION)
                     /\ DetailsNamed(last', NameOf[d]) = <<r.data>>
                ELSE /\ StoredEntry(localStorage'[cookie], d)
                           = StoredEntry(localStorage[cookie], d)
                     /\ DetailsNamed(last', NameOf[d]) = << >>
          /\ ~Has(last'.effects, "throw")
          /\ calls[i].op = "refreshAll" =>
                last'.effects[Len(last'.effects)] = Effect("return", "", Null)
      ]_vars

\* refreshAllCache has just returned after the fetch of the favorites
\* succeeded and the two others failed: the favorites are fresh, the stale
\* play records are still stored, there is no search history, and the one
\* event is that of the favorites
C39_Witness ==
    /\ last.kind = "refreshed" /\ last.op = "refreshAll"
    /\ Len(SelectSeq(last.effects, LAMBDA x : x.e = "event")) = 1
    /\ DetailsNamed(last, "favoritesUpdated") = << << <<Key2, "r2">> >> >>
    /\ StoredEntry(localStorage[cookie], "favorites")
          = Stamped(<< <<Key2, "r2">> >>, now, CACHE_VERSION)
    /\ StoredEntry(localStorage[cookie], "playRecords") = Aged(OneRecord)
    /\ StoredEntry(localStorage[cookie], "searchHistory") = Null

\* the entry of the domain of the step in the bundle of the current user is
\* stamped with the time of the step and the current version, and is valid
StoredFresh ==
    LET entry == StoredEntry(localStorage'[cookie], last'.dom) IN
    /\ entry # Null
    /\ entry[1].timestamp = now
    /\ entry[1].version = CACHE_VERSION
    /\ ValidAt(entry[1], now)
    /\ getCached(localStorage', cookie, now, last'.dom) = Some(entry[1].data)

\* C32: with a user signed in, every optimistic write, every blocking read
\* whose fetch succeeded, every background refresh that overwrites and every
\* reconciliation whose fetch succeeded stores an entry whose timestamp is
\* the time of the store and whose version is the current one, so that the
\* entry is valid right afterwards for the current user.
C32_StoresAreFresh ==
    [][cookie # NoUser =>
         /\ (Len(calls') > Len(calls) /\ last'.kind = "write") => StoredFresh
         /\ \A i \in Settling("fetch") \cup Settling("recon") :
               last'.effects[1].e = "ok" => StoredFresh
         /\ \A i \in Settling("bg") :
               (last'.effects[1].e = "ok" /\ last'.effects[1].d # calls[i].snap)
                  => StoredFresh
      ]_vars

\* a reconciliation has just stored the collection it fetched, one tick
\* after the page was loaded: the entry carries the time of the store
C32_Witness ==
    /\ last.kind = "reconciled" /\ last.effects[1].e = "ok"
    /\ cookie # NoUser
    /\ now = StartTime + TickStep
    /\ LET entry == StoredEntry(localStorage[cookie], last.dom)
       IN  /\ entry # Null
           /\ entry[1].timestamp = now
           /\ entry[1].data = last.effects[1].d


\* C35: a lost update through reconciliation can happen.  The remote call of
\* a first write has failed and its reconciliation fetch is in flight; a
\* second save of the same user and domain has put its record in the entry
\* and waits for its remote call.  When the fetch answers with a collection
\* that lacks the record, the reconciliation replaces the entry by that
\* collection, dated now, and publishes it: the second write's record is gone
\* from the cache.  The answer to the second write's remote call, when it
\* succeeds, stores the record on the server and leaves the cache as it is.
C35_ReconciliationOverwritesWrite ==
    [][/\ \A i \in Settling("recon"), j \in Waiting(calls, "mutate") :
            (/\ i < j /\ calls[j].op = "upsert" /\ calls[j].dom = calls[i].dom
             /\ calls[i].reqUser = cookie /\ calls[j].reqUser = cookie
             /\ cookie # NoUser
             /\ StoredEntry(localStorage[cookie], calls[i].dom) # Null
             /\ ObjectHas(StoredEntry(localStorage[cookie], calls[i].dom)[1].data,
                          calls[j].key)
             /\ last'.effects[1].e = "ok"
             /\ ~ObjectHas(last'.effects[1].d, calls[j].key))
            => /\ StoredEntry(localStorage'[cookie], calls[i].dom)
                    = Stamped(last'.effects[1].d, now, CACHE_VERSION)
               /\ DetailsNamed(last', NameOf[calls[i].dom]) = <<last'.effects[1].d>>
       /\ \A j \in Settling("mutate") :
            (last'.kind = "written" /\ calls[j].op = "upsert") =>
               /\ StoredEntry(localStorage'[calls[j].reqUser], calls[j].dom)
                     = StoredEntry(localStorage[calls[j].reqUser], calls[j].dom)
               /\ <<calls[j].key, calls[j].value>> \in remote'[calls[j].reqUser][calls[j].dom]
      ]_vars

\* the first save's reconciliation has just stored and published the fetched
\* collection while the second save waits for its remote call, which can
\* succeed: the entry, valid, lacks the record the second save had put in it
C35_Witness ==
    /\ last.kind = "reconciled" /\ last.effects[1].e = "ok"
    /\ cookie = "alice" /\ Len(calls) = 1
    /\ calls[1].pc = "mutate" /\ calls[1].op = "upsert" /\ calls[1].dom = last.dom
    /\ calls[1].key = Key1 /\ calls[1].reqUser = cookie
    /\ TRUE \in MutateOutcomes(calls[1])
    /\ LET entry == StoredEntry(localStorage[cookie], last.dom)
       IN  /\ entry = Stamped(<<<<Key2, "r2">>>>, now, CACHE_VERSION)
           /\ ValidAt(entry[1], now)
           /\ ~ObjectHas(entry[1].data, Key1)
           /\ DetailsNamed(last, NameOf[last.dom]) = <<entry[1].data>>


\* C36: after a clear has removed a user's bundle, the continuation of a
\* background refresh, of a reconciliation fetch or of a full refresh that was
\* in flight when the clear ran writes no entry for that user: here for the
\* continuation that runs right after the clear, which finds the bundle
\* removed and leaves it removed.
C36_NoResurrection ==
    [][(last.kind = "cleared" /\ last.effects[1].e = "remove") =>
          \A pc \in {"bg", "recon", "refresh"} :
             \A i \in Settling(pc) :
                localStorage'[last.effects[1].u] = localStorage[last.effects[1].u]
      ]_vars


\* C31: getCacheStatus reports, in database mode, for each of the three
\* domains whether the current user has a valid entry (never, when nobody is
\* signed in) and the name of the current user or none; in local-only mode
\* it reports false three times and no name, whatever the device holds.  It
\* changes neither the cache records, nor the device's collections, nor the
\* server, nor the calls in flight, nor the handlers, nor the cookie.
C31_CacheStatus ==
    [][last'.kind = "status" =>
         LET status == last'.effects[1].d IN
         /\ last'.op = "getCacheStatus"
         /\ Len(last'.effects) = 1 /\ last'.effects[1].e = "return"
         /\ UNCHANGED <<cookie, now, localStorage, remote, calls, scope, device, listeners>>
         /\ IF scope.storage = "localstorage"
            THEN status = [hasPlayRecords |-> FALSE, hasFavorites |-> FALSE,
                           hasSearchHistory |-> FALSE, username |-> NoUser]
            ELSE /\ status.username = cookie
                 /\ \A d \in Domains :
                       StatusFlag(status, d) =
                          /\ cookie # NoUser
                          /\ StoredEntry(localStorage[cookie], d) # Null
                          /\ ValidAt(StoredEntry(localStorage[cookie], d)[1], now)
      ]_vars

\* database mode, alice signed in: getCacheStatus has just reported her name,
\* play records (the entry is half a TTL old), no favorites (the entry is of
\* an old version) and no search history (there is no entry), while the
\* device also holds the three collections of the local-only mode
C31_Witness ==
    /\ last.kind = "status" /\ scope.storage = "redis" /\ cookie = "alice"
    /\ last.effects[1].d = [hasPlayRecords |-> TRUE, hasFavorites |-> FALSE,
                            hasSearchHistory |-> FALSE, username |-> "alice"]
    /\ StoredEntry(localStorage["alice"], "playRecords") = Aged(OneRecord)
    /\ StoredEntry(localStorage["alice"], "favorites") # Null
    /\ StoredEntry(localStorage["alice"], "searchHistory") = Null
    /\ device.favorites # Null


\* C37: the two modes use disjoint keys of the device store.  In database
\* mode no operation takes a local branch: none reads the local collections
\* into a call, none stores them, and the collections stay as they are.  In
\* local-only mode no operation creates, changes or removes a per-user cache
\* record.  The sweep, in either mode, leaves the local collections as they
\* are and each per-user record either as it is or removed.
C37_DisjointKeys ==
    [][/\ scope.storage # "localstorage" =>
             /\ device' = device
             /\ last'.kind \notin {"local", "read", "stored"}
             /\ \A i \in DOMAIN calls' : calls'[i].pc # "local"
       /\ (scope.storage = "localstorage" /\ Settling("timer") = {}) =>
             localStorage' = localStorage
       /\ Settling("timer") # {} =>
             /\ device' = device
             /\ \A u \in Users : localStorage'[u] \in {localStorage[u], NoRecord}
      ]_vars

\* local-only mode: a save has just stored the favorites on the device while
\* the cache record of alice, all fresh, is still there, and the sweep has
\* removed the record of bob and nothing else
C37_Witness ==
    /\ scope.storage = "localstorage"
    /\ last.kind = "stored" /\ last.dom = "favorites"
    /\ device.favorites = Some(last.effects[1].d)
    /\ device.playRecords = Some(OneRecord) /\ device.searchHistory = Some(OneKeyword)
    /\ localStorage["bob"] = NoRecord
    /\ \A d \in KeyedDomains : StoredEntry(localStorage["alice"], d) = Fresh(OneRecord)
    /\ \A i \in DOMAIN calls : calls[i].pc # "timer"


\* C38: database mode, nobody signed in.  No operation creates or changes a
\* per-user cache record (the sweep alone removes records).  Every getAll
\* misses the cache and waits for its fetch.  A write publishes its event,
\* with the collection it built from nothing, and sends its remote call, but
\* stores nothing: the cache has no data for the domain right after it.
C38_NoUserNoCache ==
    [][(scope.storage # "localstorage" /\ cookie = NoUser) =>
         /\ \A u \in Users :
               \/ localStorage'[u] = localStorage[u]
               \/ Settling("timer") # {} /\ localStorage'[u] = NoRecord
         /\ \A i \in DOMAIN last'.effects : last'.effects[i].e \notin {"cache", "store"}
         /\ (Len(calls') > Len(calls) /\ last'.op = "getAll") =>
               /\ last'.kind = "miss"
               /\ calls'[Len(calls')].pc = "fetch"
         /\ (Len(calls') > Len(calls) /\ last'.op = "upsert") =>
               /\ last'.kind = "write"
               /\ DetailsNamed(last', NameOf[last'.dom])
                     = << <<<<last'.key, last'.value>>>> >>
               /\ last'.effects[Len(last'.effects)].e = "mutate"
               /\ calls'[Len(calls')].pc = "mutate"
               /\ getCached(localStorage', cookie, now, last'.dom) = Null
      ]_vars

\* database mode, nobody signed in: a save of a favorite is waiting for the
\* answer to its remote call, and a getAllFavorites started after it has
\* just missed the cache and waits for its fetch; the records on the device,
\* alice's with its fresh favorites, are as they were
C38_Witness ==
    /\ scope.storage = "redis" /\ cookie = NoUser
    /\ Len(calls) = 2
    /\ calls[1].op = "upsert" /\ calls[1].dom = "favorites" /\ calls[1].pc = "mutate"
    /\ calls[1].reqUser = NoUser
    /\ calls[2].op = "getAll" /\ calls[2].dom = "favorites" /\ calls[2].pc = "fetch"
    /\ last.kind = "miss" /\ last.dom = "favorites"
    /\ StoredEntry(localStorage["alice"], "favorites") = Fresh(OneRecord)


\* no item occurs twice in the list
NoDuplicates(list) == \A i, j \in DOMAIN list : list[i] = list[j] => i = j

\* the search history the device holds for the current user: the data of the
\* stored cache entry, valid or not, or the list of the local-only mode
heldHistory(ls, dev) ==
    IF STORAGE_TYPE = "localstorage" THEN localRead(dev, "searchHistory")
    ELSE IF cookie = NoUser \/ StoredEntry(ls[cookie], "searchHistory") = Null THEN << >>
    ELSE StoredEntry(ls[cookie], "searchHistory")[1].data

\* C34: uniqueness of the search history: the list held on the device never
\* has a keyword twice, whatever adds, removes and clears have run; and the
\* list a removeOne(k) stores lacks the trimmed k and is the list it read
\* with k taken out, the other keywords in their order.
C34_HistoryUnique ==
    [][/\ NoDuplicates(heldHistory(localStorage, device)) =>
             NoDuplicates(heldHistory(localStorage', device'))
       /\ (/\ Cardinality(Waiting(calls', "mutate")) > Cardinality(Waiting(calls, "mutate"))
           /\ last'.op = "removeOne" /\ cookie # NoUser) =>
             LET new == heldHistory(localStorage', device') IN
             /\ \A n \in DOMAIN new : new[n] # last'.key
             /\ new = SelectSeq(shownHistory, LAMBDA k : k # last'.key)
       /\ \A i \in Settling("local") :
             calls[i].op = "removeOne" =>
                LET new == heldHistory(localStorage', device') IN
                /\ \A n \in DOMAIN new : new[n] # calls[i].key
                /\ new = SelectSeq(calls[i].snap, LAMBDA k : k # calls[i].key)
      ]_vars


\* the collection a local write makes of a collection
localApplied(op, dom, coll, key, value) ==
    IF dom = "searchHistory" THEN localHistory(op, coll, key)
    ELSE localRecords(op, coll, key, value)

\* C33: in local-only mode every write that succeeds leaves on the device the
\* collection the device held just before, with the write's mutation applied
\* (upsert, delete, add, removeOne) or no collection at all (clearAll), and
\* publishes one event of the domain, whose detail is the collection stored,
\* empty after a clearAll.
C33_LocalWrites ==
    [][scope.storage = "localstorage" =>
         /\ \A i \in Settling("local") :
               LET dom == calls[i].dom
                   new == localApplied(calls[i].op, dom, localRead(device, dom),
                                       calls[i].key, calls[i].value)
               IN  /\ device' = [device EXCEPT ![dom] = Some(new)]
                   /\ DetailsNamed(last', NameOf[dom]) = <<new>>
                   /\ Len(SelectSeq(last'.effects, LAMBDA x : x.e = "event")) = 1
         /\ (last'.kind = "stored" /\ last'.op \in ClearOps /\ calls' = calls) =>
               /\ device' = [device EXCEPT ![last'.dom] = Null]
               /\ DetailsNamed(last', NameOf[last'.dom]) = << << >> >>
               /\ Len(SelectSeq(last'.effects, LAMBDA x : x.e = "event")) = 1
      ]_vars

====
